---- MODULE Spec2Model ----
(***************************************************************************)
(* Verification model of the timeline-and-render pipeline of the video     *)
(* generator (src/video-generator): the Timeline container and its CSV     *)
(* export, the duration probe, time_to_seconds, the time rescaler of       *)
(* run_generation, VideoEditor.create_video and the with_retry decorator.  *)
(*                                                                         *)
(* Times are Python floats in the source.  They are modelled as exact      *)
(* rationals <<n, d>> (d > 0, lowest terms), so +, *, / and the            *)
(* comparisons are the mathematical ones.                                  *)
(***************************************************************************)
EXTENDS Integers, Sequences, FiniteSets, TLC

VARIABLES
    entries,            \* Timeline.entries
    total_duration,     \* Timeline.total_duration
    gen,                \* run_generation: the locals of the timeline-building block
    probe,              \* get_audio_duration: one call in progress
    cv,                 \* VideoEditor.create_video: one call in progress
    csv,                \* Timeline.to_csv: the file written and what a reader gets back
    conv,               \* time_to_seconds: one call in progress
    retry,              \* with_retry: one call of a decorated function in progress
    client,             \* the lazily built API clients of the client objects
    parser,             \* ScriptParser: one script being parsed
    run,                \* run_generation: the history entry of the run in progress
    hist,               \* the stored generation history
    tts                 \* TTSClient: one script being synthesized

vars == <<entries, total_duration, gen, probe, cv, csv, conv, retry,
          client, parser, run, hist, tts>>

\* the subsystems that every specification but their own leaves untouched
aux == <<csv, conv, retry>>
aux2 == <<client, parser, run, hist, tts>>

\* a subsystem no call of which is in progress
Idle == [pc |-> "idle"]

Aux2Idle ==
    /\ client = Idle
    /\ parser = Idle
    /\ run = Idle
    /\ hist = Idle
    /\ tts = Idle

(***************************************************************************)
(* Bounds of the model.                                                    *)
(***************************************************************************)
MaxEntries == 3
MaxLines == 2
MaxPrompts == 2
MaxClips == 2

(***************************************************************************)
(* Rational arithmetic standing for the float arithmetic of the source.    *)
(***************************************************************************)
Abs(x) == IF x < 0 THEN -x ELSE x

RECURSIVE GCD(_, _)
GCD(a, b) == IF b = 0 THEN a ELSE GCD(b, a % b)

Rat(n, d) ==
    LET g == GCD(Abs(n), d)
    IN  <<n \div g, d \div g>>

Int2Rat(n) == <<n, 1>>
RZero == <<0, 1>>
ROne == <<1, 1>>
RAdd(a, b) == Rat(a[1] * b[2] + b[1] * a[2], a[2] * b[2])
RSub(a, b) == Rat(a[1] * b[2] - b[1] * a[2], a[2] * b[2])
RMul(a, b) == Rat(a[1] * b[1], a[2] * b[2])
\* a / b for b # 0
RDiv(a, b) ==
    IF b[1] > 0 THEN Rat(a[1] * b[2], a[2] * b[1])
                ELSE Rat(-(a[1] * b[2]), a[2] * (-b[1]))
RLt(a, b) == a[1] * b[2] < b[1] * a[2]
RLe(a, b) == a[1] * b[2] <= b[1] * a[2]
RMax(a, b) == IF RLt(a, b) THEN b ELSE a
\* int(x): truncation toward zero
RTrunc(a) == IF a[1] >= 0 THEN a[1] \div a[2] ELSE -((-a[1]) \div a[2])

(***************************************************************************)
(* TimelineEntry and Timeline (src/video/editor.py).                       *)
(***************************************************************************)
None == "None"

TimelineEntry(start, end, mtype, path, speaker) ==
    [start_time |-> start, end_time |-> end, media_type |-> mtype,
     file_path |-> path, speaker |-> speaker]

\* faulty variant: the entry is put at the front
M_EntriesPrepend(es, entry) == <<entry>> \o es

\* self.entries.append(entry)
EntriesAfterAdd(es, entry) == Append(es, entry)

\* faulty variant: the total is overwritten by every entry
M_total_durationAssign(td, entry) == entry.end_time

\* faulty variant: only the first entry sets the total
M_total_durationFirstOnly(td, entry) == IF td = RZero THEN entry.end_time ELSE td

\* faulty variant: the comparison is reversed
M_total_durationMin(td, entry) ==
    IF RLt(entry.end_time, td) THEN entry.end_time ELSE td

\* if entry.end_time > self.total_duration: self.total_duration = entry.end_time
total_durationAfterAdd(td, entry) ==
    IF RLt(td, entry.end_time) THEN entry.end_time ELSE td

\* Timeline.add_entry as a state change of the Timeline variables
add_entry(entry) ==
    /\ entries' = EntriesAfterAdd(entries, entry)
    /\ total_duration' = total_durationAfterAdd(total_duration, entry)

\* Timeline(): entries = [], total_duration = 0.0
TimelineInit ==
    /\ entries = <<>>
    /\ total_duration = RZero

Path(kind, id) == [kind |-> kind, id |-> id]

(***************************************************************************)
(* Duration probe: get_audio_duration / get_audio_duration_auto (app.py).  *)
(* The two functions have the same body.  The environment of one call is   *)
(* what the media reader does (AudioFileClip, .duration, .close) and what  *)
(* os.path.getsize does.                                                   *)
(***************************************************************************)
BytesPerSec == 48000
DefaultDuration == 5
MinDuration == 1

\* durations a media reader may report: None, 0.0 or a positive length
RNone == <<0, 0>>
ReaderDurations == {RNone, RZero, Rat(1, 2), Int2Rat(10), Int2Rat(120)}
FileSizes == {0, 24000, 48000, 480000, 720000}

ProbeEnvs ==
    [open_raises : BOOLEAN, duration : ReaderDurations, close_raises : BOOLEAN,
     size_raises : BOOLEAN, file_size : FileSizes]

Returned(v) == [raised |-> FALSE, value |-> v]
Raised == [raised |-> TRUE, value |-> RZero]

\* the try block: clip = AudioFileClip(p); duration = clip.duration;
\* clip.close(); return duration if duration else 5.0
ProbeTryBlock(env) ==
    IF env.open_raises \/ env.close_raises
    THEN Raised
    ELSE Returned(IF env.duration = RNone \/ env.duration = RZero
                  THEN Int2Rat(DefaultDuration)
                  ELSE env.duration)

\* faulty variant: the size read is not guarded
M_ProbeFallbackUncaught(env) ==
    IF env.size_raises
    THEN Raised
    ELSE Returned(RMax(Int2Rat(MinDuration), Rat(env.file_size, BytesPerSec)))

\* the handler: try: return max(1.0, getsize(p) / 48000)  except: return 5.0
ProbeFallback(env) ==
    IF env.size_raises
    THEN Returned(Int2Rat(DefaultDuration))
    ELSE Returned(RMax(Int2Rat(MinDuration), Rat(env.file_size, BytesPerSec)))

get_audio_duration(env) ==
    IF ProbeTryBlock(env).raised THEN ProbeFallback(env) ELSE ProbeTryBlock(env)

NoEnv ==
    [open_raises |-> FALSE, duration |-> RNone, close_raises |-> FALSE,
     size_raises |-> FALSE, file_size |-> 0]

ProbeIdle == [pc |-> "idle", env |-> NoEnv, result |-> Raised]

\* a caller invokes the probe on a file
ProbeCall ==
    /\ probe.pc = "idle"
    /\ \E env \in ProbeEnvs :
         probe' = [pc |-> "try", env |-> env, result |-> Raised]
    /\ UNCHANGED <<entries, total_duration, gen, cv, aux, aux2>>

\* the try block runs: it returns, or the reader raises into the handler
ProbeTry ==
    /\ probe.pc = "try"
    /\ LET r == ProbeTryBlock(probe.env)
       IN  probe' = IF r.raised
                    THEN [probe EXCEPT !.pc = "except"]
                    ELSE [probe EXCEPT !.pc = "returned", !.result = r]
    /\ UNCHANGED <<entries, total_duration, gen, cv, aux, aux2>>

\* the except handler runs
ProbeExcept ==
    /\ probe.pc = "except"
    /\ LET r == ProbeFallback(probe.env)
       IN  probe' = [probe EXCEPT !.pc = IF r.raised THEN "raised" ELSE "returned",
                                  !.result = r]
    /\ UNCHANGED <<entries, total_duration, gen, cv, aux, aux2>>

(***************************************************************************)
(* time_to_seconds (app.py).  A time string is modelled by the fields that *)
(* split(":") yields; a field is an integer, or NonNumeric when int()      *)
(* rejects it.                                                             *)
(***************************************************************************)
\* stands for a field that int() rejects with ValueError
NonNumeric == -1

time_to_seconds(parts) ==
    IF Len(parts) = 2
    THEN IF parts[1] = NonNumeric \/ parts[2] = NonNumeric
         THEN Raised
         ELSE Returned(Int2Rat(parts[1] * 60 + parts[2]))
    ELSE IF Len(parts) = 3
    THEN IF parts[1] = NonNumeric \/ parts[2] = NonNumeric \/ parts[3] = NonNumeric
         THEN Raised
         ELSE Returned(Int2Rat(parts[1] * 3600 + parts[2] * 60 + parts[3]))
    ELSE Returned(RZero)

\* the fields a time string may split into
FieldVals == {0, 1, 30, NonNumeric}
MaxFields == 4

RECURSIVE FieldSeqs(_)
FieldSeqs(n) ==
    IF n = 0 THEN {<<>>}
    ELSE {Append(fs, f) : fs \in FieldSeqs(n - 1), f \in FieldVals}

\* split(":") never yields an empty list
TimeStrings == UNION {FieldSeqs(n) : n \in 1..MaxFields}

ConvIdle == [pc |-> "idle", parts |-> <<>>, result |-> Raised]

\* one call time_to_seconds(time_str)
ConvCall ==
    /\ conv.pc = "called"
    /\ conv' = [conv EXCEPT !.pc = "done", !.result = time_to_seconds(conv.parts)]
    /\ UNCHANGED <<entries, total_duration, gen, probe, cv, csv, retry, aux2>>

(***************************************************************************)
(* with_retry (utils/retry.py): the wrapper around a decorated function.   *)
(* A call of the function ends in one of the Outcomes; the value or the    *)
(* exception of the k-th call is identified by k.                          *)
(***************************************************************************)
MaxRetries == 3
DEFAULT_EXPONENTIAL_BASE == 2

\* what one call of the decorated function may do:
\*   ok          it returns
\*   error       it raises an exception matching retryable_exceptions
\*   rate_limit  it raises a matching RateLimitError (retry_after 0: None or 0)
\*   other       it raises an exception that retryable_exceptions does not match
Outcome(kind, retry_after) == [kind |-> kind, retry_after |-> retry_after]

Outcomes ==
    {Outcome("ok", 0), Outcome("error", 0), Outcome("other", 0),
     Outcome("rate_limit", 0), Outcome("rate_limit", 60)}

BaseDelays == {Int2Rat(1), Int2Rat(2)}
MaxDelays == {Int2Rat(3), Int2Rat(30)}

RECURSIVE Pow(_, _)
Pow(b, n) == IF n = 0 THEN 1 ELSE b * Pow(b, n - 1)

\* range(max_retries + 1)
attempts(max_retries) == max_retries + 1

\* faulty variant: the delay is not capped
M_backoffUncapped(base_delay, attempt, max_delay) ==
    RMul(base_delay, Int2Rat(Pow(DEFAULT_EXPONENTIAL_BASE, attempt)))

\* min(base_delay * (exponential_base**attempt), max_delay)
backoff(base_delay, attempt, max_delay) ==
    LET d == RMul(base_delay, Int2Rat(Pow(DEFAULT_EXPONENTIAL_BASE, attempt)))
    IN  IF RLt(max_delay, d) THEN max_delay ELSE d

\* the delay chosen in the except block
delay_of(r, outcome) ==
    IF outcome.kind = "rate_limit" /\ outcome.retry_after # 0
    THEN Int2Rat(outcome.retry_after)
    ELSE backoff(r.base_delay, r.attempt, r.max_delay)

\* faulty variant: the wrapper also sleeps after the last attempt
M_sleepsAlways(attempt, max_retries) == attempt <= max_retries

\* if attempt < max_retries: time.sleep(delay)
sleeps_before_next(attempt, max_retries) == attempt < max_retries

\* faulty variant: the result of a successful call is dropped and the loop goes on
M_on_successContinue(r, k) ==
    [r EXCEPT !.attempt = r.attempt + 1, !.history = Append(r.history, Outcome("ok", 0))]

\* return func(*args, **kwargs), the k-th call having returned
on_success(r, k) ==
    [r EXCEPT !.pc = "returned", !.result = k,
              !.history = Append(r.history, Outcome("ok", 0))]

\* faulty variant: an exception outside retryable_exceptions is retried too
M_on_otherRetried(r, k, outcome) ==
    [r EXCEPT !.last_exception = k,
              !.sleeps = Append(r.sleeps, r.base_delay),
              !.attempt = r.attempt + 1,
              !.history = Append(r.history, outcome)]

\* an exception outside retryable_exceptions leaves the wrapper at once
on_other(r, k, outcome) ==
    [r EXCEPT !.pc = "raised", !.raised = k, !.history = Append(r.history, outcome)]

\* the except block
on_retryable(r, k, outcome) ==
    [r EXCEPT !.last_exception = k,
              !.sleeps = IF sleeps_before_next(r.attempt, r.max_retries)
                         THEN Append(r.sleeps, delay_of(r, outcome))
                         ELSE r.sleeps,
              !.attempt = r.attempt + 1,
              !.history = Append(r.history, outcome)]

\* raised by the wrapper when the loop ends without an exception to re-raise
RuntimeErrorId == 0

RetryIdle ==
    [pc |-> "idle", max_retries |-> 0, base_delay |-> RZero, max_delay |-> RZero,
     attempt |-> 0, history |-> <<>>, sleeps |-> <<>>,
     last_exception |-> 0, result |-> 0, raised |-> 0]

retryRest == <<entries, total_duration, gen, probe, cv, csv, conv, aux2>>

\* one iteration of the for loop: the call and what follows it
RetryAttempt ==
    /\ retry.pc = "loop"
    /\ retry.attempt < attempts(retry.max_retries)
    /\ \E outcome \in Outcomes :
         LET k == Len(retry.history) + 1
         IN  retry' = IF outcome.kind = "ok" THEN on_success(retry, k)
                      ELSE IF outcome.kind = "other" THEN on_other(retry, k, outcome)
                      ELSE on_retryable(retry, k, outcome)
    /\ UNCHANGED retryRest

\* the loop is over: raise last_exception, or RuntimeError when there is none
RetryExhausted ==
    /\ retry.pc = "loop"
    /\ ~(retry.attempt < attempts(retry.max_retries))
    /\ retry' = [retry EXCEPT !.pc = "raised",
                              !.raised = IF retry.last_exception # 0
                                         THEN retry.last_exception
                                         ELSE RuntimeErrorId]
    /\ UNCHANGED retryRest

(***************************************************************************)
(* Timeline.to_csv (video/editor.py), and the file read back.              *)
(* A string is the sequence of its characters.  The values of a row, as     *)
(* written and as read back, are Python values: a float, a str or None.    *)
(***************************************************************************)
PyFloat(r) == [kind |-> "float", val |-> r, chars |-> <<>>]
PyStr(cs) == [kind |-> "str", val |-> RZero, chars |-> cs]
PyNone == [kind |-> "None", val |-> RZero, chars |-> <<>>]

COMMA == ","
QUOTE == "\""
DigitChar == <<"0", "1", "2", "3", "4", "5", "6", "7", "8", "9">>

\* the characters of the strings the entries carry
Text(s) ==
    CASE s = "audio" -> <<"a", "u", "d", "i", "o">>
      [] s = "image" -> <<"i", "m", "a", "g", "e">>
      [] s = "video" -> <<"v", "i", "d", "e", "o">>
      [] s = "bgm" -> <<"b", "g", "m">>
      [] s = "speaker1" -> <<"s", "p", "e", "a", "k", "e", "r", "1">>
      [] s = "speaker2" -> <<"s", "p", "e", "a", "k", "e", "r", "2">>
      [] s = "start_time" -> <<"s", "t", "a", "r", "t", "_", "t", "i", "m", "e">>
      [] s = "end_time" -> <<"e", "n", "d", "_", "t", "i", "m", "e">>
      [] s = "media_type" -> <<"m", "e", "d", "i", "a", "_", "t", "y", "p", "e">>
      [] s = "file_path" -> <<"f", "i", "l", "e", "_", "p", "a", "t", "h">>
      [] s = "speaker" -> <<"s", "p", "e", "a", "k", "e", "r">>

\* str(n) of a non-negative integer
RECURSIVE IntRepr(_)
IntRepr(n) ==
    IF n < 10 THEN <<DigitChar[n + 1]>>
    ELSE Append(IntRepr(n \div 10), DigitChar[(n % 10) + 1])

\* the decimal digits of rem / d, rem < d, by long division
RECURSIVE FracRepr(_, _)
FracRepr(rem, d) ==
    IF rem = 0 THEN <<>>
    ELSE <<DigitChar[((rem * 10) \div d) + 1]>> \o FracRepr((rem * 10) % d, d)

\* repr(x) of a non-negative float with a finite decimal expansion, as
\* csv.writer writes it: "0.0", "0.5", "12.0"
FloatRepr(r) ==
    IntRepr(r[1] \div r[2]) \o <<".">>
      \o (IF r[1] % r[2] = 0 THEN <<"0">> ELSE FracRepr(r[1] % r[2], r[2]))

\* faulty variant: the file path and the media type change places
M_csv_rowSwapped(entry) ==
    <<FloatRepr(entry.start_time), FloatRepr(entry.end_time),
      entry.file_path, Text(entry.media_type),
      IF entry.speaker = None THEN <<>> ELSE Text(entry.speaker)>>

\* [entry.start_time, entry.end_time, entry.media_type, entry.file_path,
\*  entry.speaker or ""], each as the text csv.writer makes of it
csv_row(entry) ==
    <<FloatRepr(entry.start_time), FloatRepr(entry.end_time),
      Text(entry.media_type), entry.file_path,
      IF entry.speaker = None THEN <<>> ELSE Text(entry.speaker)>>

\* csv.writer quoting (QUOTE_MINIMAL): a field holding the delimiter or the
\* quote character is quoted, with every quote character doubled
csv_field(cs) ==
    LET Doubled[i \in 0..Len(cs)] ==
            IF i = 0 THEN <<>>
            ELSE Doubled[i - 1] \o (IF cs[i] = QUOTE THEN <<QUOTE, QUOTE>> ELSE <<cs[i]>>)
    IN  IF \E i \in 1..Len(cs) : cs[i] \in {COMMA, QUOTE}
        THEN <<QUOTE>> \o Doubled[Len(cs)] \o <<QUOTE>>
        ELSE cs

\* writer.writerow(row): the fields joined by the delimiter
writerow(row) ==
    LET Joined[i \in 1..Len(row)] ==
            IF i = 1 THEN csv_field(row[1])
            ELSE Joined[i - 1] \o <<COMMA>> \o csv_field(row[i])
    IN  Joined[Len(row)]

\* ["start_time", "end_time", "media_type", "file_path", "speaker"]
header ==
    <<Text("start_time"), Text("end_time"), Text("media_type"), Text("file_path"),
      Text("speaker")>>

\* Timeline.to_csv: the header row, then one row per entry in list order
to_csv(es) ==
    <<writerow(header)>> \o [j \in 1..Len(es) |-> writerow(csv_row(es[j]))]

\* csv.reader on one line: the fields, unquoted
RECURSIVE csv_reader(_, _, _, _, _)
csv_reader(line, i, quoted, cur, cells) ==
    IF i > Len(line) THEN Append(cells, cur)
    ELSE IF quoted
    THEN IF line[i] # QUOTE
         THEN csv_reader(line, i + 1, TRUE, Append(cur, line[i]), cells)
         ELSE IF i < Len(line) /\ line[i + 1] = QUOTE
         THEN csv_reader(line, i + 2, TRUE, Append(cur, QUOTE), cells)
         ELSE csv_reader(line, i + 1, FALSE, cur, cells)
    ELSE IF line[i] = COMMA
    THEN csv_reader(line, i + 1, FALSE, <<>>, Append(cells, cur))
    ELSE IF line[i] = QUOTE /\ cur = <<>>
    THEN csv_reader(line, i + 1, TRUE, cur, cells)
    ELSE csv_reader(line, i + 1, FALSE, Append(cur, line[i]), cells)

\* float(s) of a decimal string "ddd.ddd"
float(cs) ==
    LET dot == CHOOSE i \in 1..Len(cs) : cs[i] = "."
        digit(c) == CHOOSE d \in 0..9 : DigitChar[d + 1] = c
        digits == SubSeq(cs, 1, dot - 1) \o SubSeq(cs, dot + 1, Len(cs))
        Val[i \in 0..Len(digits)] ==
            IF i = 0 THEN 0 ELSE 10 * Val[i - 1] + digit(digits[i])
    IN  Rat(Val[Len(digits)], Pow(10, Len(cs) - dot))

\* the file read back: the header skipped, every row as the tuple
\* (float(start_time), float(end_time), media_type, file_path, speaker)
read_csv(lines) ==
    [j \in 1..(Len(lines) - 1) |->
       LET row == csv_reader(lines[j + 1], 1, FALSE, <<>>, <<>>)
       IN  <<PyFloat(float(row[1])), PyFloat(float(row[2])),
             PyStr(row[3]), PyStr(row[4]), PyStr(row[5])>>]

CsvIdle == [pc |-> "idle", rows |-> <<>>, read |-> <<>>]

csvRest == <<gen, probe, cv, conv, retry, aux2>>

\* timeline.to_csv(path)
CsvWrite ==
    /\ csv.pc = "timeline"
    /\ csv' = [csv EXCEPT !.pc = "written", !.rows = to_csv(entries)]
    /\ UNCHANGED <<entries, total_duration>>
    /\ UNCHANGED csvRest

\* the file is read back
CsvRead ==
    /\ csv.pc = "written"
    /\ csv' = [csv EXCEPT !.pc = "read", !.read = read_csv(csv.rows)]
    /\ UNCHANGED <<entries, total_duration>>
    /\ UNCHANGED csvRest

AuxIdle ==
    /\ csv = CsvIdle
    /\ conv = ConvIdle
    /\ retry = RetryIdle
    /\ Aux2Idle

(***************************************************************************)
(* run_generation (app.py): the block that builds the Timeline in the      *)
(* automatic mode (lines 1605-1692).  The block of the Filmora mode        *)
(* (1512-1596) is the same code without the background-video entries,      *)
(* followed by the BGM entry that AddBgmEntry models.                      *)
(***************************************************************************)
\* the "M:SS" strings PROMPT_PATTERN (\d+:\d+) lets through
PromptTimes == {<<0, 0>>, <<0, 30>>, <<1, 0>>}

ImagePrompt(number, start, end) ==
    [number |-> number, start_time |-> start, end_time |-> end]

RECURSIVE PromptLists(_)
PromptLists(n) ==
    IF n = 0 THEN {<<>>}
    ELSE {Append(ps, ImagePrompt(n, s, e)) :
            ps \in PromptLists(n - 1), s \in PromptTimes, e \in PromptTimes}

\* the outcomes of the probe the audio files of a run may give
GenProbeEnvs ==
    { [NoEnv EXCEPT !.duration = Int2Rat(120)],
      [NoEnv EXCEPT !.open_raises = TRUE, !.file_size = 480000] }

\* the script of a run: its lines are spoken in turn by the two speakers
SpeakerOf(line) == IF line % 2 = 1 THEN "speaker1" ELSE "speaker2"

\* python's a / b on floats
PyDiv(a, b) == IF b = RZero THEN Raised ELSE Returned(RDiv(a, b))

\* prompt_total_duration: time_to_seconds(prompts[-1].end_time), or the audio
\* total when there is no prompt
prompt_total_duration(prompts, audio_total) ==
    IF Len(prompts) > 0
    THEN time_to_seconds(prompts[Len(prompts)].end_time)
    ELSE Returned(audio_total)

\* faulty variant: the ratio is inverted
M_time_scaleInverted(audio_total, prompt_total) ==
    IF RLt(RZero, prompt_total)
    THEN PyDiv(prompt_total, audio_total)
    ELSE Returned(ROne)

\* faulty variant: the guard against a zero prompt total is missing
M_time_scaleNoGuard(audio_total, prompt_total) == PyDiv(audio_total, prompt_total)

\* if prompt_total_duration > 0: audio / prompt  else: 1.0
time_scale(audio_total, prompt_total) ==
    IF RLt(RZero, prompt_total)
    THEN PyDiv(audio_total, prompt_total)
    ELSE Returned(ROne)

\* time_to_seconds(t) * time_scale
scaled(t, scale) ==
    LET s == time_to_seconds(t)
    IN  IF s.raised THEN Raised ELSE Returned(RMul(s.value, scale))

GenIdle ==
    [pc |-> "idle", full |-> FALSE, nlines |-> 0, line |-> 1,
     current_time |-> RZero, prompts |-> <<>>, audio_total_duration |-> RZero,
     prompt_total_duration |-> RZero, time_scale |-> ROne, p |-> 1]

\* the state in which the block is entered: a non-empty script (line 1219),
\* the audio files as one "full" file or per line, any parsed prompt list
GenInit ==
    \E full \in BOOLEAN, nlines \in 1..MaxLines, np \in 0..MaxPrompts :
      \E prompts \in PromptLists(np) :
        gen = [GenIdle EXCEPT !.pc = "audio", !.full = full,
                              !.nlines = nlines, !.prompts = prompts]

genRest == <<probe, cv, aux, aux2>>

\* "full" in audio_files: one audio entry from 0 to the probed duration
GenAudioFull ==
    /\ gen.pc = "audio" /\ gen.full
    /\ \E env \in GenProbeEnvs :
         LET d == get_audio_duration(env)
         IN  IF d.raised
             THEN gen' = [gen EXCEPT !.pc = "error"] /\ UNCHANGED <<entries, total_duration>>
             ELSE /\ add_entry(TimelineEntry(RZero, d.value, "audio",
                                             Path("audio", 0), "all"))
                  /\ gen' = [gen EXCEPT !.pc = "scale"]
    /\ UNCHANGED genRest

\* one iteration of "for line in script.lines"
GenAudioLine ==
    /\ gen.pc = "audio" /\ ~gen.full /\ gen.line <= gen.nlines
    /\ \E has_audio \in BOOLEAN, env \in GenProbeEnvs :
         LET d == get_audio_duration(env)
         IN  IF ~has_audio
             THEN /\ gen' = [gen EXCEPT !.line = @ + 1]
                  /\ UNCHANGED <<entries, total_duration>>
             ELSE IF d.raised
             THEN gen' = [gen EXCEPT !.pc = "error"] /\ UNCHANGED <<entries, total_duration>>
             ELSE /\ add_entry(TimelineEntry(gen.current_time,
                                             RAdd(gen.current_time, d.value), "audio",
                                             Path("audio", gen.line), SpeakerOf(gen.line)))
                  /\ gen' = [gen EXCEPT !.line = @ + 1,
                                        !.current_time = RAdd(@, d.value)]
    /\ UNCHANGED genRest

\* the loop over the script lines ends
GenAudioEnd ==
    /\ gen.pc = "audio" /\ ~gen.full /\ gen.line > gen.nlines
    /\ gen' = [gen EXCEPT !.pc = "scale"]
    /\ UNCHANGED <<entries, total_duration>>
    /\ UNCHANGED genRest

\* audio_total_duration, prompt_total_duration and time_scale are computed
GenScale ==
    /\ gen.pc = "scale"
    /\ LET a == total_duration
           pt == prompt_total_duration(gen.prompts, a)
           sc == IF pt.raised THEN Raised ELSE time_scale(a, pt.value)
       IN  gen' = IF sc.raised
                  THEN [gen EXCEPT !.pc = "error", !.audio_total_duration = a]
                  ELSE [gen EXCEPT !.pc = "images", !.audio_total_duration = a,
                                   !.prompt_total_duration = pt.value,
                                   !.time_scale = sc.value]
    /\ UNCHANGED <<entries, total_duration>>
    /\ UNCHANGED genRest

\* one iteration of "for p in prompts.prompts"
GenImage ==
    /\ gen.pc = "images" /\ gen.p <= Len(gen.prompts)
    /\ \E has_image \in BOOLEAN, has_video \in BOOLEAN :
         LET pr == gen.prompts[gen.p]
             s == scaled(pr.start_time, gen.time_scale)
             e == scaled(pr.end_time, gen.time_scale)
             img == TimelineEntry(s.value, e.value, "image", Path("image", pr.number), None)
             vid == TimelineEntry(s.value, e.value, "video", Path("video", pr.number), None)
         IN  IF ~has_image
             THEN /\ gen' = [gen EXCEPT !.p = @ + 1]
                  /\ UNCHANGED <<entries, total_duration>>
             ELSE IF s.raised \/ e.raised
             THEN gen' = [gen EXCEPT !.pc = "error"] /\ UNCHANGED <<entries, total_duration>>
             ELSE IF has_video
             THEN /\ entries' = EntriesAfterAdd(EntriesAfterAdd(entries, vid), img)
                  /\ total_duration' =
                       total_durationAfterAdd(total_durationAfterAdd(total_duration, vid), img)
                  /\ gen' = [gen EXCEPT !.p = @ + 1]
             ELSE /\ add_entry(img)
                  /\ gen' = [gen EXCEPT !.p = @ + 1]
    /\ UNCHANGED genRest

\* the loop over the prompts ends
GenImagesEnd ==
    /\ gen.pc = "images" /\ gen.p > Len(gen.prompts)
    /\ gen' = [gen EXCEPT !.pc = "built"]
    /\ UNCHANGED <<entries, total_duration>>
    /\ UNCHANGED genRest

(***************************************************************************)
(* VideoEditor.create_video (src/video/editor.py).  One call is a process  *)
(* that walks the timeline once per kind of clip, mixes, encodes and       *)
(* cleans up.  What the media library does with a file (opening fails, the *)
(* native duration of a clip, the encode failing) is the environment.      *)
(***************************************************************************)
DefaultWidth == 1920
DefaultHeight == 1080

\* the "video_formats" registry of config/settings.json
VideoFormats ==
    [f \in {"youtube", "instagram_reel", "instagram_feed", "tiktok"} |->
       CASE f = "youtube" -> [width |-> 1920, height |-> 1080]
         [] f = "instagram_reel" -> [width |-> 1080, height |-> 1920]
         [] f = "instagram_feed" -> [width |-> 1080, height |-> 1080]
         [] f = "tiktok" -> [width |-> 1080, height |-> 1920]]

\* the format names a caller may pass: the registered ones and one that is not
FormatNames == DOMAIN VideoFormats \cup {"unregistered"}

\* faulty variant: a name that is not registered gets the first registered
\* portrait size instead of the default
M_get_format_configNoDefault(formats, format_name) ==
    IF format_name \in DOMAIN formats
    THEN formats[format_name]
    ELSE [width |-> DefaultHeight, height |-> DefaultWidth]

\* formats.get(format_name, {"width": 1920, "height": 1080, ...}) with the
\* registry of the settings file
get_format_config(formats, format_name) ==
    IF format_name \in DOMAIN formats
    THEN formats[format_name]
    ELSE [width |-> DefaultWidth, height |-> DefaultHeight]

\* native durations of the video and BGM files: RNone when the file cannot be
\* opened, else the duration the library reports
NativeDurations == {RNone, RZero, Int2Rat(1), Rat(3, 2), Int2Rat(7)}

\* faulty variant: the extra repetition is missing
M_loops_neededNoExtra(duration, clip_duration) ==
    LET q == PyDiv(duration, clip_duration)
    IN  IF q.raised THEN Raised ELSE Returned(RTrunc(q.value))

\* int(duration / clip.duration) + 1
loops_needed(duration, clip_duration) ==
    LET q == PyDiv(duration, clip_duration)
    IN  IF q.raised THEN Raised ELSE Returned(RTrunc(q.value) + 1)

\* concatenate_videoclips([clip] * n).duration
concatenated(clip_duration, n) == RMul(clip_duration, Int2Rat(n))

\* clip.subclipped(0, end).duration; the library rejects an end beyond the clip
subclipped(clip_duration, end) ==
    IF RLt(clip_duration, end) THEN Raised ELSE Returned(end)

\* the body of the try block of the background-video loop, for one entry and
\* the native duration of its file
VideoClipOf(entry, native) ==
    LET duration == RSub(entry.end_time, entry.start_time)
        n == IF RLt(native, duration) THEN loops_needed(duration, native) ELSE Returned(1)
        sub == IF n.raised THEN Raised
               ELSE subclipped(concatenated(native, n.value), duration)
    IN  IF native = RNone \/ sub.raised
        THEN [raised |-> TRUE, clip |-> None]
        ELSE [raised |-> FALSE,
              clip |-> [path |-> entry.file_path, duration |-> sub.value,
                        start |-> entry.start_time, loops |-> n.value]]

\* faulty variant: the failure of one background video leaves create_video
M_OnVideoErrorRaise(c, native) ==
    [c EXCEPT !.pc = "raised", !.result = "raised", !.clip_duration = native,
              !.open = @ + (IF native = RNone THEN 0 ELSE 1)]

\* except Exception as e: print(...): the entry is skipped, the loop goes on;
\* a file that was opened before the failure stays open
OnVideoError(c, native) ==
    [c EXCEPT !.i = @ + 1, !.clip_duration = native,
              !.open = @ + (IF native = RNone THEN 0 ELSE 1),
              !.skipped = Append(@, c.i)]

\* any(v.start_time <= entry.start_time < v.end_time for the video entries)
has_bg_video(es, entry) ==
    \E j \in 1..Len(es) :
      /\ es[j].media_type = "video"
      /\ RLe(es[j].start_time, entry.start_time)
      /\ RLt(entry.start_time, es[j].end_time)

\* int(x * 0.8)
Scale80(x) == (x * 8) \div 10

ImageClipOf(es, entry, width, height) ==
    [path |-> entry.file_path,
     duration |-> RSub(entry.end_time, entry.start_time),
     start |-> entry.start_time,
     width |-> IF has_bg_video(es, entry) THEN Scale80(width) ELSE width,
     height |-> IF has_bg_video(es, entry) THEN Scale80(height) ELSE height]

\* bgm_volume: float = 0.3, which no caller overrides
bgm_volume == Rat(3, 10)

\* faulty variant: a BGM shorter than the video is not repeated
M_bgm_loopsOnce(native, total) == Returned(1)

\* if bgm_clip.duration and bgm_clip.duration < timeline.total_duration:
\*     loops_needed = int(timeline.total_duration / bgm_clip.duration) + 1
bgm_loops(native, total) ==
    IF native # RNone /\ native # RZero /\ RLt(native, total)
    THEN loops_needed(total, native) ELSE Returned(1)

\* the BGM block: loop while shorter than the total, trim to the total, scale
\* the volume
BgmClipOf(native, total) ==
    LET n == bgm_loops(native, total)
        sub == IF n.raised THEN Raised
               ELSE subclipped(concatenated(native, n.value), total)
    IN  IF native = RNone \/ sub.raised
        THEN [raised |-> TRUE, clip |-> None]
        ELSE [raised |-> FALSE,
              clip |-> [path |-> Path("bgm", 0), duration |-> sub.value,
                        start |-> RZero, loops |-> n.value, volume |-> bgm_volume]]

\* faulty variant: the encode error is swallowed
M_AfterEncodeSwallow(ok) == "cleanup"

\* what follows video.write_videofile(...): the cleanup when it returns; when
\* it raises nothing catches the exception and it leaves create_video
AfterEncode(ok) == IF ok THEN "cleanup" ELSE "raised"

\* skipped: the entries the background-video loop reported and skipped;
\* bgm_duration: what the BGM file gave when it was opened; sp1, sp2: what
\* became of the avatar of each speaker
CvIdle ==
    [pc |-> "idle", i |-> 1, format_name |-> "youtube",
     width |-> DefaultWidth, height |-> DefaultHeight,
     bgm |-> FALSE, bgm_duration |-> RNone, clip_duration |-> RNone,
     audio_clips |-> <<>>, video_clips |-> <<>>, image_clips |-> <<>>,
     bgm_clips |-> <<>>, avatar_clips |-> 0, skipped |-> <<>>,
     sp1 |-> "unset", sp2 |-> "unset",
     open |-> 0, encodes |-> 0, encode |-> "none", result |-> "none"]

cvRest == <<entries, total_duration, gen, probe, aux, aux2>>

NextLoop(pc) ==
    CASE pc = "audio" -> "video"
      [] pc = "video" -> "image"
      [] pc = "image" -> "bgm"

\* format_config = self.get_format_config(format_name)
CvFormat ==
    /\ cv.pc = "format"
    /\ LET format_config == get_format_config(VideoFormats, cv.format_name)
       IN  cv' = [cv EXCEPT !.pc = "audio", !.width = format_config.width,
                            !.height = format_config.height]
    /\ UNCHANGED cvRest

\* for entry in timeline.entries: if entry.media_type == "audio": ...
CvAudio ==
    /\ cv.pc = "audio" /\ cv.i <= Len(entries)
    /\ LET entry == entries[cv.i]
       IN  IF entry.media_type # "audio"
           THEN cv' = [cv EXCEPT !.i = @ + 1]
           ELSE \E opens \in BOOLEAN :
                  cv' = IF opens
                        THEN [cv EXCEPT !.i = @ + 1, !.open = @ + 1,
                                        !.audio_clips =
                                           Append(@, [path |-> entry.file_path,
                                                      start |-> entry.start_time,
                                                      entry |-> cv.i])]
                        ELSE [cv EXCEPT !.pc = "raised", !.result = "raised"]
    /\ UNCHANGED cvRest

\* for entry in timeline.entries: if entry.media_type == "video": try ... except
CvVideo ==
    /\ cv.pc = "video" /\ cv.i <= Len(entries)
    /\ LET entry == entries[cv.i]
       IN  IF entry.media_type # "video"
           THEN cv' = [cv EXCEPT !.i = @ + 1, !.clip_duration = RNone]
           ELSE \E native \in NativeDurations :
                  LET r == VideoClipOf(entry, native)
                  IN  cv' = IF r.raised
                            THEN OnVideoError(cv, native)
                            ELSE [cv EXCEPT !.i = @ + 1, !.clip_duration = native,
                                            !.open = @ + 1,
                                            !.video_clips =
                                               Append(@, r.clip @@ [entry |-> cv.i])]
    /\ UNCHANGED cvRest

\* for entry in timeline.entries: if entry.media_type == "image": ...
CvImage ==
    /\ cv.pc = "image" /\ cv.i <= Len(entries)
    /\ LET entry == entries[cv.i]
       IN  IF entry.media_type # "image"
           THEN cv' = [cv EXCEPT !.i = @ + 1]
           ELSE \E opens \in BOOLEAN :
                  cv' = IF opens
                        THEN [cv EXCEPT !.i = @ + 1, !.open = @ + 1,
                                        !.image_clips =
                                           Append(@, ImageClipOf(entries, entry,
                                                                 cv.width, cv.height)
                                                     @@ [entry |-> cv.i])]
                        ELSE [cv EXCEPT !.pc = "raised", !.result = "raised"]
    /\ UNCHANGED cvRest

\* one of the three loops over timeline.entries ends
CvLoopEnd ==
    /\ cv.pc \in {"audio", "video", "image"} /\ cv.i > Len(entries)
    /\ cv' = [cv EXCEPT !.pc = NextLoop(cv.pc), !.i = 1]
    /\ UNCHANGED cvRest

\* if bgm_path and Path(bgm_path).exists(): try ... except
CvBgm ==
    /\ cv.pc = "bgm"
    /\ IF ~cv.bgm
       THEN cv' = [cv EXCEPT !.pc = "avatar"]
       ELSE \E native \in NativeDurations :
              LET r == BgmClipOf(native, total_duration)
                  opened == IF native = RNone THEN 0 ELSE 1
              IN  cv' = IF r.raised
                        THEN [cv EXCEPT !.pc = "avatar", !.open = @ + opened,
                                        !.bgm_duration = native]
                        ELSE [cv EXCEPT !.pc = "avatar", !.open = @ + opened,
                                        !.bgm_duration = native,
                                        !.bgm_clips = Append(@, r.clip)]
    /\ UNCHANGED cvRest

\* the speaker segments: the audio entries that carry a speaker
speaker_segments(es) ==
    Cardinality({j \in 1..Len(es) : es[j].media_type = "audio" /\ es[j].speaker # None})

\* the two avatar blocks: an avatar that is configured and exists gives one
\* ImageClip per speaker segment, or one for the whole duration if there is
\* no segment; ImageClip raising is caught nowhere
CvAvatar ==
    /\ cv.pc = "avatar"
    /\ \E sp1 \in {"absent", "loads", "fails"}, sp2 \in {"absent", "loads", "fails"} :
         LET per == IF speaker_segments(entries) = 0 THEN 1 ELSE speaker_segments(entries)
             n1 == IF sp1 = "loads" THEN per ELSE 0
             n2 == IF sp2 = "loads" THEN per ELSE 0
         IN  cv' = IF sp1 = "fails"
                   THEN [cv EXCEPT !.pc = "raised", !.result = "raised", !.sp1 = sp1]
                   ELSE IF sp2 = "fails"
                   THEN [cv EXCEPT !.pc = "raised", !.result = "raised",
                                   !.sp1 = sp1, !.sp2 = sp2,
                                   !.avatar_clips = n1, !.open = @ + n1]
                   ELSE [cv EXCEPT !.pc = "encode", !.avatar_clips = n1 + n2,
                                   !.sp1 = sp1, !.sp2 = sp2,
                                   !.open = @ + n1 + n2 + 2]
    /\ UNCHANGED cvRest

\* the base canvas and the composite are built (counted with the avatars
\* above) and video.write_videofile(...) runs
CvEncode ==
    /\ cv.pc = "encode"
    /\ \E ok \in BOOLEAN :
         cv' = [cv EXCEPT !.pc = AfterEncode(ok),
                          !.encodes = @ + 1,
                          !.encode = IF ok THEN "ok" ELSE "failed",
                          !.result = IF AfterEncode(ok) = "raised" THEN "raised" ELSE @]
    /\ UNCHANGED cvRest

\* video.close(), every clip of the four lists and the base clip are closed;
\* return output_path
CvCleanup ==
    /\ cv.pc = "cleanup"
    /\ cv' = [cv EXCEPT !.pc = "returned", !.result = "returned",
                        !.open = @ - (2 + Len(cv.audio_clips) + Len(cv.bgm_clips)
                                        + Len(cv.video_clips) + Len(cv.image_clips)
                                        + cv.avatar_clips)]
    /\ UNCHANGED cvRest

\* the timelines handed to create_video: entries with a positive span
CvEntries ==
    { TimelineEntry(RZero, Int2Rat(2), "audio", Path("audio", 1), "speaker1"),
      TimelineEntry(Int2Rat(1), Int2Rat(3), "video", Path("video", 1), None),
      TimelineEntry(RZero, Int2Rat(5), "video", Path("video", 2), None),
      TimelineEntry(RZero, Int2Rat(2), "image", Path("image", 1), None),
      TimelineEntry(Int2Rat(2), Int2Rat(5), "image", Path("image", 2), None) }

RECURSIVE CvTimelines(_)
CvTimelines(n) ==
    IF n = 0 THEN {<<>>}
    ELSE CvTimelines(n - 1)
         \cup {Append(es, e) : es \in {t \in CvTimelines(n - 1) : Len(t) = n - 1},
                               e \in CvEntries}

RECURSIVE TotalOf(_)
TotalOf(es) ==
    IF es = <<>> THEN RZero
    ELSE total_durationAfterAdd(TotalOf(SubSeq(es, 1, Len(es) - 1)), es[Len(es)])

InitVideo ==
    /\ entries \in CvTimelines(MaxClips)
    /\ total_duration = TotalOf(entries)
    /\ \E bgm \in BOOLEAN, f \in FormatNames :
         cv = [CvIdle EXCEPT !.pc = "format", !.bgm = bgm, !.format_name = f]
    /\ gen = GenIdle
    /\ probe = ProbeIdle
    /\ AuxIdle

NextVideo ==
    \/ CvFormat
    \/ CvAudio
    \/ CvVideo
    \/ CvImage
    \/ CvLoopEnd
    \/ CvBgm
    \/ CvAvatar
    \/ CvEncode
    \/ CvCleanup

SpecVideo == InitVideo /\ [][NextVideo]_vars

(***************************************************************************)
(* run_generation building the Timeline of one run.                        *)
(***************************************************************************)
InitGen ==
    /\ TimelineInit
    /\ GenInit
    /\ probe = ProbeIdle
    /\ cv = CvIdle
    /\ AuxIdle

NextGen ==
    \/ GenAudioFull
    \/ GenAudioLine
    \/ GenAudioEnd
    \/ GenScale
    \/ GenImage
    \/ GenImagesEnd

SpecGen == InitGen /\ [][NextGen]_vars

(***************************************************************************)
(* The Timeline used on its own: any caller adds any entries, in any       *)
(* order.  Times are non-negative seconds, as every caller produces them.  *)
(***************************************************************************)
TimeVals == {RZero, Rat(1, 2), Int2Rat(2)}

ApiEntries ==
    {TimelineEntry(s, e, "audio", Path("audio", 1), "speaker1") : s \in TimeVals, e \in TimeVals}
    \cup {TimelineEntry(s, e, m, Path(m, 1), None) :
            s \in TimeVals, e \in TimeVals, m \in {"image", "video"}}

\* timeline.add_entry(entry) for an arbitrary entry
AddEntry ==
    /\ Len(entries) < MaxEntries
    /\ \E entry \in ApiEntries : add_entry(entry)
    /\ UNCHANGED <<gen, probe, cv, aux, aux2>>

\* the BGM entry as run_generation adds it: end_time = timeline.total_duration
AddBgmEntry ==
    /\ Len(entries) < MaxEntries
    /\ add_entry(TimelineEntry(RZero, total_duration, "bgm", Path("bgm", 0), None))
    /\ UNCHANGED <<gen, probe, cv, aux, aux2>>

Init ==
    /\ TimelineInit
    /\ gen = GenIdle
    /\ probe = ProbeIdle
    /\ AuxIdle
    /\ cv = CvIdle

Next ==
    \/ AddEntry
    \/ AddBgmEntry

Spec == Init /\ [][Next]_vars

(***************************************************************************)
(* The duration probe on its own: one call on a file, in any environment.  *)
(***************************************************************************)
InitProbe ==
    /\ TimelineInit
    /\ gen = GenIdle
    /\ probe = ProbeIdle
    /\ AuxIdle
    /\ cv = CvIdle

NextProbe ==
    \/ ProbeCall
    \/ ProbeTry
    \/ ProbeExcept

SpecProbe == InitProbe /\ [][NextProbe]_vars

(***************************************************************************)
(* to_csv on its own: a timeline built by add_entry is written once and    *)
(* the file is read back.  File paths are the character sequences here.    *)
(***************************************************************************)
CsvEntries ==
    { TimelineEntry(RZero, Rat(1, 2), "audio", <<"a">>, "speaker1"),
      TimelineEntry(Rat(1, 2), Rat(5, 4), "audio", <<"a", COMMA, "b">>, "speaker2"),
      TimelineEntry(RZero, Int2Rat(12), "image", <<QUOTE, "a">>, None),
      TimelineEntry(Rat(5, 4), Int2Rat(12), "video", <<"a">>, None),
      TimelineEntry(RZero, Int2Rat(12), "bgm", <<"b">>, None) }

RECURSIVE CsvTimelines(_)
CsvTimelines(n) ==
    IF n = 0 THEN {<<>>}
    ELSE CsvTimelines(n - 1)
         \cup {Append(es, e) : es \in {t \in CsvTimelines(n - 1) : Len(t) = n - 1},
                               e \in CsvEntries}

InitCsv ==
    /\ entries \in CsvTimelines(MaxEntries)
    /\ total_duration = TotalOf(entries)
    /\ csv = [CsvIdle EXCEPT !.pc = "timeline"]
    /\ gen = GenIdle
    /\ probe = ProbeIdle
    /\ cv = CvIdle
    /\ conv = ConvIdle
    /\ retry = RetryIdle
    /\ Aux2Idle

NextCsv ==
    \/ CsvWrite
    \/ CsvRead

SpecCsv == InitCsv /\ [][NextCsv]_vars

(***************************************************************************)
(* time_to_seconds on its own: one call on any time string.                *)
(***************************************************************************)
InitTime ==
    /\ TimelineInit
    /\ \E parts \in TimeStrings : conv = [ConvIdle EXCEPT !.pc = "called", !.parts = parts]
    /\ gen = GenIdle
    /\ probe = ProbeIdle
    /\ cv = CvIdle
    /\ csv = CsvIdle
    /\ retry = RetryIdle
    /\ Aux2Idle

NextTime ==
    \/ ConvCall

SpecTime == InitTime /\ [][NextTime]_vars

(***************************************************************************)
(* with_retry on its own: one call of a decorated function whose every     *)
(* attempt may end in any of the Outcomes.  Every call of the function and *)
(* every sleep ends, which is what the fairness condition says.            *)
(***************************************************************************)
InitRetry ==
    /\ TimelineInit
    /\ \E m \in 0..MaxRetries, b \in BaseDelays, d \in MaxDelays :
         retry = [RetryIdle EXCEPT !.pc = "loop", !.max_retries = m,
                                   !.base_delay = b, !.max_delay = d]
    /\ gen = GenIdle
    /\ probe = ProbeIdle
    /\ cv = CvIdle
    /\ csv = CsvIdle
    /\ conv = ConvIdle
    /\ Aux2Idle

NextRetry ==
    \/ RetryAttempt
    \/ RetryExhausted

SpecRetry == InitRetry /\ [][NextRetry]_vars

SpecRetryFair == SpecRetry /\ WF_vars(NextRetry)

(***************************************************************************)
(* Claims about the Timeline.                                              *)
(***************************************************************************)
\* C1: after any sequence of add_entry calls on a fresh Timeline,
\* total_duration is the largest end_time among the entries added so far,
\* and 0 when there is none.
C1_TotalIsMaxEnd ==
    /\ entries = <<>> => total_duration = RZero
    /\ entries # <<>> =>
         /\ \E i \in 1..Len(entries) : total_duration = entries[i].end_time
         /\ \A i \in 1..Len(entries) : RLe(entries[i].end_time, total_duration)

\* C1 witness: three entries were added and the largest end_time is not the
\* last one's.
C1_Witness ==
    /\ Len(entries) = 3
    /\ RLt(entries[3].end_time, entries[1].end_time)
    /\ total_duration = Int2Rat(2)

\* C2: total_duration never decreases from one add_entry call to the next, is
\* at least every held entry's end_time, and an added entry whose end_time is
\* the current total_duration (the BGM entry) leaves it unchanged.
C2_Monotone ==
    [][ /\ RLe(total_duration, total_duration')
        /\ \A i \in 1..Len(entries') : RLe(entries'[i].end_time, total_duration')
        /\ (entries'[Len(entries')].end_time = total_duration
              => total_duration' = total_duration) ]_<<entries, total_duration>>

\* C2 witness: audio, image, then the BGM entry whose end_time is the total
\* duration at insertion; the total is 2 throughout.
C2_Witness ==
    /\ Len(entries) = 3
    /\ entries[1].media_type = "audio" /\ entries[1].end_time = Int2Rat(2)
    /\ entries[2].media_type = "image" /\ entries[2].end_time = Int2Rat(2)
    /\ entries[3].media_type = "bgm" /\ entries[3].end_time = Int2Rat(2)
    /\ total_duration = Int2Rat(2)

\* C3: add_entry appends the entry at the end without validating overlap or
\* time order; the entries already held keep their values and order, none is
\* removed, and the number of entries grows by exactly one per call.
C3_AppendOnly ==
    [][ /\ Len(entries') = Len(entries) + 1
        /\ SubSeq(entries', 1, Len(entries)) = entries
        /\ \/ entries'[Len(entries')] \in ApiEntries
           \/ entries'[Len(entries')].media_type = "bgm" ]_<<entries, total_duration>>

\* C3 witness: the Timeline holds, in insertion order, an entry that starts
\* later than the one after it and overlaps nothing in time order, and an
\* entry whose end is before its start: nothing was rejected or sorted.
C3_Witness ==
    /\ Len(entries) = 3
    /\ RLt(entries[2].start_time, entries[1].start_time)
    /\ RLt(entries[2].start_time, entries[3].end_time)
    /\ RLt(entries[3].start_time, entries[2].end_time)
    /\ RLt(entries[1].end_time, entries[1].start_time)

(***************************************************************************)
(* Claims about run_generation's Timeline and the rescaler.                *)
(***************************************************************************)
Seconds(t) == time_to_seconds(t).value

\* C4: every TimelineEntry of a Timeline that run_generation builds, from any
\* audio durations and any parsed prompt list, has end_time >= start_time.
\* The code does not establish this: a prompt whose end is before its start
\* is rescaled and inserted as it is.
C4_EndNotBeforeStart ==
    \A i \in 1..Len(entries) : RLe(entries[i].start_time, entries[i].end_time)

\* the prompt an image or video entry was made from
PromptOf(entry) == gen.prompts[entry.file_path.id]

\* the audio total: the largest end_time among the audio entries, 0 if none
AudioTotalIs(a) ==
    LET ends == {entries[i].end_time :
                   i \in {j \in 1..Len(entries) : entries[j].media_type = "audio"}}
    IN  IF ends = {} THEN a = RZero
        ELSE a \in ends /\ \A x \in ends : RLe(x, a)

AfterScale == gen.pc \in {"images", "built"}

\* C5: when the last prompt's end time converts to P > 0 seconds and the
\* audio entries give the total A, the scale is A / P and every image and
\* background-video entry inserted has start = seconds(prompt.start) * A / P
\* and end = seconds(prompt.end) * A / P.
C5_ScaleIsAudioOverPrompt ==
    (AfterScale /\ Len(gen.prompts) > 0
       /\ RLt(RZero, Seconds(gen.prompts[Len(gen.prompts)].end_time))) =>
      LET P == Seconds(gen.prompts[Len(gen.prompts)].end_time)
          A == gen.audio_total_duration
          scale == RDiv(A, P)
      IN  /\ AudioTotalIs(A)
          /\ gen.time_scale = scale
          /\ \A i \in 1..Len(entries) :
               entries[i].media_type \in {"image", "video"} =>
                 /\ entries[i].start_time
                      = RMul(Seconds(PromptOf(entries[i]).start_time), scale)
                 /\ entries[i].end_time
                      = RMul(Seconds(PromptOf(entries[i]).end_time), scale)

\* C5 witness: audio of 120 s and a last prompt ending at "1:00" give scale 2,
\* and the image of the prompt 0:30-1:00 is placed at 60-120.
C5_Witness ==
    /\ gen.pc = "built"
    /\ gen.audio_total_duration = Int2Rat(120)
    /\ gen.prompt_total_duration = Int2Rat(60)
    /\ gen.time_scale = Int2Rat(2)
    /\ \E i \in 1..Len(entries) :
         /\ entries[i].media_type = "image"
         /\ PromptOf(entries[i]).start_time = <<0, 30>>
         /\ entries[i].start_time = Int2Rat(60)
         /\ entries[i].end_time = Int2Rat(120)

\* C6: when the prompt list is empty or the prompt-authored total is <= 0,
\* the scale is 1.0 and no error is raised, whatever the audio total is.
C6_ScaleDefaultsToOne ==
    (gen.pc \in {"images", "built", "error"}
       /\ (Len(gen.prompts) = 0
           \/ RLe(Seconds(gen.prompts[Len(gen.prompts)].end_time), RZero))) =>
      /\ gen.pc # "error"
      /\ gen.time_scale = ROne

\* C6 witness: no prompt and no audio entry at all (audio total 0), and the
\* block ran to its end.
C6_Witness ==
    /\ gen.pc = "built"
    /\ Len(gen.prompts) = 0
    /\ entries = <<>>
    /\ gen.audio_total_duration = RZero
    /\ gen.time_scale = ROne

\* C7: once the audio entries and all rescaled image and background-video
\* entries are added, total_duration equals the audio total, for every
\* prompt list.  The code does not establish this: it scales by the last
\* prompt's end, so a prompt that ends later than the last one (or any prompt
\* when the last one ends at 0:00) is placed beyond the audio.
C7_TotalIsAudioTotal ==
    gen.pc = "built" =>
      total_duration = gen.audio_total_duration

(***************************************************************************)
(* Claims about the duration probe.                                        *)
(***************************************************************************)
ReaderRaises(env) == env.open_raises \/ env.close_raises

\* C8: the probe never raises; it returns the reader's duration when the
\* reader reports one (not None, not 0); max(1.0, size / 48000) when the
\* reader raises; 5.0 when the size read fails too; the result is positive.
C8_ProbeNeverRaises ==
    /\ probe.pc # "raised"
    /\ probe.pc = "returned" =>
         LET env == probe.env
             v == probe.result.value
         IN  /\ ~probe.result.raised
             /\ RLt(RZero, v)
             /\ (~ReaderRaises(env) /\ env.duration # RNone /\ env.duration # RZero)
                  => v = env.duration
             /\ (ReaderRaises(env) /\ ~env.size_raises)
                  => /\ v[1] * 48000 >= env.file_size * v[2]
                     /\ RLe(ROne, v)
                     /\ (v = ROne \/ v[1] * 48000 = env.file_size * v[2])
             /\ (ReaderRaises(env) /\ env.size_raises) => v = Int2Rat(5)

\* C8 witness: the reader raises on a file of 480000 bytes and the probe
\* returns 10.0.
C8_Witness ==
    /\ probe.pc = "returned"
    /\ probe.env.open_raises
    /\ ~probe.env.size_raises
    /\ probe.env.file_size = 480000
    /\ probe.result.value = Int2Rat(10)

(***************************************************************************)
(* Claims about create_video.                                              *)
(***************************************************************************)
Span(entry) == RSub(entry.end_time, entry.start_time)

\* the video entry the loop has just handled loaded with a positive duration
JustLoaded ==
    /\ cv.pc = "video" /\ cv.i > 1
    /\ entries[cv.i - 1].media_type = "video"
    /\ RLt(RZero, cv.clip_duration)

\* C9: a video entry whose clip loads with a positive native duration gets a
\* scheduled clip of exactly end_time - start_time: one shorter than the span
\* is repeated enough times to cover it and trimmed, one long enough is only
\* trimmed.
C9_LoopedClipCoversSpan ==
    /\ \A k \in 1..Len(cv.video_clips) :
         \E j \in 1..Len(entries) :
           /\ entries[j].media_type = "video"
           /\ entries[j].file_path = cv.video_clips[k].path
           /\ cv.video_clips[k].duration = Span(entries[j])
           /\ cv.video_clips[k].start = entries[j].start_time
    /\ JustLoaded =>
         /\ Len(cv.video_clips) > 0
         /\ LET c == cv.video_clips[Len(cv.video_clips)]
                e == entries[cv.i - 1]
            IN  /\ c.path = e.file_path
                /\ c.duration = Span(e)
                /\ RLe(Span(e), RMul(cv.clip_duration, Int2Rat(c.loops)))
                /\ RLe(Span(e), cv.clip_duration) => c.loops = 1

\* C9 witness: a clip of 1.5 s for a span of 5 s was repeated 4 times and
\* trimmed to 5 s.
C9_Witness ==
    /\ JustLoaded
    /\ cv.clip_duration = Rat(3, 2)
    /\ Span(entries[cv.i - 1]) = Int2Rat(5)
    /\ cv.video_clips[Len(cv.video_clips)].loops = 4
    /\ cv.video_clips[Len(cv.video_clips)].duration = Int2Rat(5)

\* C10: when write_videofile fails, create_video raises to its caller: it
\* returns no output path, and the encode was attempted exactly once.
C10_EncodeFailurePropagates ==
    cv.encode = "failed" =>
      /\ cv.pc = "raised"
      /\ cv.result = "raised"
      /\ cv.encodes = 1

\* C10 witness: the encode of a timeline with a loaded background clip failed
\* and the call ended by raising.
C10_Witness ==
    /\ cv.encode = "failed"
    /\ cv.pc = "raised"
    /\ Len(cv.video_clips) > 0

\* the call of create_video is over: it returned the output path, or an
\* exception left it
CvExited == cv.pc \in {"returned", "raised"}

\* C11: on every exit path of create_video, returning or raising, every clip
\* resource opened during the call has been closed.
C11_AllClosedOnExit == CvExited => cv.open = 0

\* the entries of one media type, and the entries a list of clips was built from
EntriesOf(mtype) == {j \in 1..Len(entries) : entries[j].media_type = mtype}
ClipEntries(clips) == {clips[k].entry : k \in 1..Len(clips)}
Skipped == {cv.skipped[k] : k \in 1..Len(cv.skipped)}

\* C12: a video entry whose clip fails to load or decode contributes no
\* background clip and its error does not leave create_video: the loop goes on,
\* and when the encode runs every audio entry, every image entry and every
\* other video entry has its clip in the composition.
C12_VideoFailureSkipped ==
    /\ [](/\ Skipped \subseteq EntriesOf("video")
          /\ Skipped \cap ClipEntries(cv.video_clips) = {}
          /\ cv.encode # "none" =>
               /\ ClipEntries(cv.audio_clips) = EntriesOf("audio")
               /\ ClipEntries(cv.image_clips) = EntriesOf("image")
               /\ ClipEntries(cv.video_clips) = EntriesOf("video") \ Skipped)
    /\ [][cv.pc = "video" => cv'.pc \in {"video", "image"}]_vars

\* C12 witness: the first video entry failed to load, the second one loaded,
\* and the encode ran and succeeded with the clip of the second.
C12_Witness ==
    /\ cv.skipped = <<1>>
    /\ ClipEntries(cv.video_clips) = {2}
    /\ cv.encode = "ok"
    /\ cv.result = "returned"

\* the avatar of a speaker was configured but is missing or did not load
AvatarUnusable(sp) == sp \in {"absent", "fails"}

\* C13: when the avatar asset of a speaker is missing or fails to load, that
\* speaker's overlays are skipped, no error reaches the caller of create_video
\* and the render goes on to the encode.
C13_AvatarFailureSkipped ==
    /\ (AvatarUnusable(cv.sp1) /\ AvatarUnusable(cv.sp2)) => cv.avatar_clips = 0
    /\ (AvatarUnusable(cv.sp1) \/ AvatarUnusable(cv.sp2)) =>
         (cv.pc = "raised" => cv.encode = "failed")

\* the half-open intervals of two entries overlap
Overlaps(a, b) == RLt(a.start_time, b.end_time) /\ RLt(b.start_time, a.end_time)

OverlapsSomeVideo(entry) ==
    \E j \in EntriesOf("video") : Overlaps(entries[j], entry)

\* C14: an image entry is rendered at 80% of the canvas exactly when some
\* video entry of the timeline overlaps its interval [start_time, end_time);
\* otherwise it is rendered at the full canvas size.
C14_ScaledIffOverlapsVideo ==
    \A k \in 1..Len(cv.image_clips) :
      LET c == cv.image_clips[k]
      IN  IF OverlapsSomeVideo(entries[c.entry])
          THEN c.width = Scale80(cv.width) /\ c.height = Scale80(cv.height)
          ELSE c.width = cv.width /\ c.height = cv.height

\* the BGM block of the call is over
BgmDone == cv.pc \in {"avatar", "encode", "cleanup", "returned"} \/ cv.sp1 # "unset"

\* the clips of the audio entries: one per entry, starting at its start_time
AudioEntriesMixed ==
    /\ ClipEntries(cv.audio_clips) = EntriesOf("audio")
    /\ Len(cv.audio_clips) = Cardinality(EntriesOf("audio"))
    /\ \A k \in 1..Len(cv.audio_clips) :
         cv.audio_clips[k].start = entries[cv.audio_clips[k].entry].start_time

\* the mix holds exactly one BGM clip: the file repeated until it covers
\* total_duration, trimmed to total_duration, at the volume bgm_volume
OneBgmClip ==
    /\ Len(cv.bgm_clips) = 1
    /\ cv.bgm_clips[1].duration = total_duration
    /\ cv.bgm_clips[1].start = RZero
    /\ RLe(total_duration, RMul(cv.bgm_duration, Int2Rat(cv.bgm_clips[1].loops)))
    /\ cv.bgm_clips[1].volume = bgm_volume

\* C15 as stated: whenever a BGM path is supplied and the file exists the mix
\* holds exactly one BGM clip covering total_duration at bgm_volume; otherwise
\* it holds only the clips of the audio entries.
C15_BgmMixedWhenFileExists ==
    BgmDone =>
      /\ AudioEntriesMixed
      /\ IF cv.bgm THEN OneBgmClip ELSE cv.bgm_clips = <<>>

\* C15: when a BGM path is supplied, the file exists and it loads with a
\* positive duration, the mix holds exactly one BGM clip, repeated until it
\* covers total_duration, trimmed to exactly total_duration, at bgm_volume;
\* when no path is supplied, the file does not exist or it cannot be opened,
\* the mix holds only the clips of the audio entries, each at its start_time.
C15_BgmMixedWhenLoaded ==
    BgmDone =>
      /\ AudioEntriesMixed
      /\ (cv.bgm /\ RLt(RZero, cv.bgm_duration)) => OneBgmClip
      /\ (~cv.bgm \/ cv.bgm_duration = RNone) => cv.bgm_clips = <<>>

\* C15 witness: a BGM of 1.5 s under a timeline of 5 s with a narration clip
\* was repeated 4 times and trimmed to 5 s, and the video was written.
C15_Witness ==
    /\ cv.result = "returned"
    /\ cv.bgm /\ cv.bgm_duration = Rat(3, 2)
    /\ total_duration = Int2Rat(5)
    /\ Len(cv.audio_clips) = 1
    /\ OneBgmClip
    /\ cv.bgm_clips[1].loops = 4

\* create_video has read the size of its output format
FormatRead == cv.pc \notin {"idle", "format"}

\* C16: get_format_config gives 1920x1080 for youtube, 1080x1920 for
\* instagram_reel, 1080x1080 for instagram_feed, 1080x1920 for tiktok, and the
\* default 1920x1080 for a name that is not registered.
C16_FormatSizes ==
    FormatRead =>
      LET size == <<cv.width, cv.height>>
      IN  CASE cv.format_name = "youtube" -> size = <<1920, 1080>>
            [] cv.format_name = "instagram_reel" -> size = <<1080, 1920>>
            [] cv.format_name = "instagram_feed" -> size = <<1080, 1080>>
            [] cv.format_name = "tiktok" -> size = <<1080, 1920>>
            [] OTHER -> size = <<1920, 1080>>

\* C16 witness: a call with a format name that is not registered rendered an
\* image clip on the default 1920x1080 canvas.
C16_Witness ==
    /\ FormatRead
    /\ cv.format_name \notin DOMAIN VideoFormats
    /\ cv.width = 1920 /\ cv.height = 1080
    /\ Len(cv.image_clips) > 0

(***************************************************************************)
(* Claims about to_csv.                                                    *)
(***************************************************************************)
\* C17 as stated: to_csv followed by a re-read gives back, in insertion order,
\* the (start_time, end_time, media_type, file_path, speaker) tuples of the
\* entries, an absent speaker included.
C17_CsvRoundTrip ==
    csv.pc = "read" =>
      csv.read = [j \in 1..Len(entries) |->
                    <<PyFloat(entries[j].start_time), PyFloat(entries[j].end_time),
                      PyStr(Text(entries[j].media_type)), PyStr(entries[j].file_path),
                      IF entries[j].speaker = None THEN PyNone
                      ELSE PyStr(Text(entries[j].speaker))>>]

\* C17: to_csv followed by a re-read gives back, in insertion order, the
\* start_time, end_time, media_type and file_path of every entry and the
\* speaker of every entry that has one; an absent speaker reads back as the
\* empty string.
C17_CsvRoundTripEmptySpeaker ==
    csv.pc = "read" =>
      csv.read = [j \in 1..Len(entries) |->
                    <<PyFloat(entries[j].start_time), PyFloat(entries[j].end_time),
                      PyStr(Text(entries[j].media_type)), PyStr(entries[j].file_path),
                      IF entries[j].speaker = None THEN PyStr(<<>>)
                      ELSE PyStr(Text(entries[j].speaker))>>]

\* C17 witness: a timeline with a narration entry whose path holds a comma and
\* an image entry without speaker was written and read back.
C17_Witness ==
    /\ csv.pc = "read"
    /\ Len(csv.read) = 2
    /\ csv.read[1] = <<PyFloat(Rat(1, 2)), PyFloat(Rat(5, 4)), PyStr(Text("audio")),
                       PyStr(<<"a", COMMA, "b">>), PyStr(Text("speaker2"))>>
    /\ entries[2].media_type = "image" /\ entries[2].speaker = None
    /\ csv.read[2][5] = PyStr(<<>>)

(***************************************************************************)
(* Claims about time_to_seconds.                                           *)
(***************************************************************************)
\* C18: time_to_seconds turns "M:SS" into M*60+SS and "H:MM:SS" into
\* H*3600+MM*60+SS, and gives 0.0 for every malformed string (a wrong number of
\* fields, or fields that are not numbers) instead of raising.
C18_MalformedGivesZero ==
    conv.pc = "done" =>
      LET p == conv.parts
          numeric == \A i \in 1..Len(p) : p[i] # NonNumeric
      IN  /\ ~conv.result.raised
          /\ (Len(p) = 2 /\ numeric) => conv.result.value = Int2Rat(p[1] * 60 + p[2])
          /\ (Len(p) = 3 /\ numeric) =>
               conv.result.value = Int2Rat(p[1] * 3600 + p[2] * 60 + p[3])
          /\ (Len(p) \notin {2, 3} \/ ~numeric) => conv.result.value = RZero

(***************************************************************************)
(* Claims about with_retry.                                                *)
(***************************************************************************)
\* the first n attempts all raised exceptions that retryable_exceptions matches
AllRetryable(n) == \A k \in 1..n : retry.history[k].kind \in {"error", "rate_limit"}

\* C19: a function that first succeeds on its n-th attempt, n <= m+1, after
\* retryable failures, is called exactly n times and the wrapper returns the
\* result of that attempt (called once when it succeeds at once); the wrapper
\* does not give up while one of the m+1 attempts is left.
C19_ReturnsFirstSuccess ==
    LET h == retry.history
        m == retry.max_retries
    IN  /\ \A n \in 1..Len(h) :
             h[n].kind = "ok" =>
               /\ Len(h) = n
               /\ AllRetryable(n - 1)
               /\ retry.pc = "returned"
               /\ retry.result = n
        /\ retry.pc = "returned" => Len(h) \in 1..(m + 1) /\ h[Len(h)].kind = "ok"
        /\ (retry.pc = "raised" /\ AllRetryable(Len(h))) => Len(h) > m

\* C19 witness: with max_retries = 2 the function failed twice, succeeded on
\* the third and last attempt, and the wrapper returned that result.
C19_Witness ==
    /\ retry.pc = "returned"
    /\ retry.max_retries = 2
    /\ Len(retry.history) = 3
    /\ AllRetryable(2)
    /\ retry.result = 3

\* C20: a function that raises a retryable exception on every attempt is
\* called exactly m+1 times, then the wrapper raises the exception of the last
\* attempt; the wrapper sleeps between attempts only, never after the last
\* one, and the call always comes to an end.
C20_ExhaustedRaisesLast ==
    /\ [](LET h == retry.history
              m == retry.max_retries
          IN  /\ Len(h) <= m + 1
              /\ AllRetryable(Len(h)) =>
                   Len(retry.sleeps) = IF Len(h) <= m THEN Len(h) ELSE m
              /\ (retry.pc = "raised" /\ AllRetryable(Len(h))) =>
                   /\ Len(h) = m + 1
                   /\ retry.raised = m + 1
                   /\ Len(retry.sleeps) = m)
    /\ <>(retry.pc \in {"returned", "raised"})

\* C20 witness: with max_retries = 3 all four attempts failed, the wrapper
\* slept three times and raised the exception of the fourth attempt.
C20_Witness ==
    /\ retry.pc = "raised"
    /\ retry.max_retries = 3
    /\ Len(retry.history) = 4
    /\ AllRetryable(4)
    /\ retry.raised = 4
    /\ Len(retry.sleeps) = 3

\* C21: an exception whose type is not in retryable_exceptions leaves the
\* wrapper at once: the call that raised it is the last one, no sleep follows
\* it, and the wrapper raises that very exception; raised by the first call,
\* the function has been called exactly once and the wrapper never slept.
C21_NonRetryablePropagates ==
    LET h == retry.history
    IN  \A n \in 1..Len(h) :
          h[n].kind = "other" =>
            /\ Len(h) = n
            /\ retry.pc = "raised"
            /\ retry.raised = n
            /\ Len(retry.sleeps) = n - 1

\* C21 witness: with max_retries = 3 the first call raised an exception that
\* is not retryable; the wrapper raised it after that single call.
C21_Witness ==
    /\ retry.max_retries = 3
    /\ Len(retry.history) = 1
    /\ retry.history[1].kind = "other"
    /\ retry.pc = "raised"
    /\ retry.sleeps = <<>>

\* the delay base_delay * exponential_base^k capped at max_delay
CappedBackoff(k) ==
    LET d == RMul(retry.base_delay, Int2Rat(DEFAULT_EXPONENTIAL_BASE ^ k))
    IN  IF RLt(retry.max_delay, d) THEN retry.max_delay ELSE d

HasRetryAfter(k) ==
    retry.history[k].kind = "rate_limit" /\ retry.history[k].retry_after # 0

MaxCalls == 3

CoreIdle ==
    /\ TimelineInit
    /\ gen = GenIdle
    /\ probe = ProbeIdle
    /\ cv = CvIdle
    /\ csv = CsvIdle
    /\ conv = ConvIdle
    /\ retry = RetryIdle

ClientSlots ==
    {"ImageGenerator._client", "BeatovenClient._client",
     "TTSClient._cloud_client", "TTSClient._gemini_client"}

\* faulty variant: the client is built on every call
M_needs_buildAlways(held) == TRUE

\* if self._client is None:
needs_build(held) == held = 0

\* one call of the getter of a slot; env is what the environment gives the
\* construction: "ok", "no_key" (the API key is not configured) or "fails"
get_client(c, slot, env) ==
    LET used == [c EXCEPT !.uses[slot] = @ + 1]
    IN  IF ~needs_build(c.held[slot])
        THEN [used EXCEPT !.returned[slot] =
                             Append(@, IF c.held[slot] > 0 THEN c.held[slot] ELSE 0)]
        ELSE IF env = "ok"
        THEN [used EXCEPT !.held[slot] = c.built[slot] + 1,
                          !.built[slot] = @ + 1,
                          !.returned[slot] = Append(@, c.built[slot] + 1)]
        ELSE IF slot = "TTSClient._cloud_client"
        THEN [used EXCEPT !.held[slot] = -1, !.returned[slot] = Append(@, 0)]
        ELSE used

ClientGet ==
    /\ client.pc = "ready"
    /\ \A s \in ClientSlots : client.uses[s] < MaxCalls
    /\ \E slot \in ClientSlots, env \in {"ok", "no_key", "fails"} :
         client' = get_client(client, slot, env)
    /\ UNCHANGED <<entries, total_duration, gen, probe, cv, aux, parser, run, hist, tts>>

InitClient ==
    /\ CoreIdle
    /\ client = [pc |-> "ready", held |-> [s \in ClientSlots |-> 0],
                 built |-> [s \in ClientSlots |-> 0],
                 uses |-> [s \in ClientSlots |-> 0],
                 returned |-> [s \in ClientSlots |-> <<>>]]
    /\ parser = Idle /\ run = Idle /\ hist = Idle /\ tts = Idle

NextClient ==
    \/ ClientGet

SpecClient == InitClient /\ [][NextClient]_vars

MaxScript == 4

LineKinds == {"blank", "speaker", "speaker_only", "numbered", "text", "short", "scene_only"}

RECURSIVE Scripts(_)
Scripts(n) ==
    IF n = 0 THEN {<<>>}
    ELSE Scripts(n - 1)
         \cup {Append(sc, k) : sc \in {t \in Scripts(n - 1) : Len(t) = n - 1},
                               k \in LineKinds}

\* faulty variant: every non-blank line is taken for a speaker line
M_is_speaker_lineAny(kind) == kind # "blank"

\* self.SPEAKER_PATTERN.match(raw_line)
is_speaker_line(kind) == kind = "speaker"

\* the index at which the inner loop of a speaker-only line stops: the next
\* line that matches one of the two speaker patterns, or the end
block_end(script, i) ==
    LET stops == {j \in (i + 1)..Len(script) :
                    is_speaker_line(script[j]) \/ script[j] = "speaker_only"}
    IN  IF stops = {} THEN Len(script) + 1
        ELSE CHOOSE j \in stops : \A k \in stops : j <= k

\* one iteration of the while loop of _parse_content
parse_step(p) ==
    LET kind == p.script[p.i]
        j == block_end(p.script, p.i)
        made == [p EXCEPT !.line_number = @ + 1,
                          !.lines = Append(@, [number |-> p.line_number + 1, at |-> p.i])]
    IN  IF kind = "blank" THEN [p EXCEPT !.i = @ + 1]
        ELSE IF is_speaker_line(kind) THEN [made EXCEPT !.i = p.i + 1]
        ELSE IF kind = "speaker_only"
        THEN IF \E k \in (p.i + 1)..(j - 1) : p.script[k] # "blank"
             THEN [made EXCEPT !.i = j]
             ELSE [p EXCEPT !.i = j]
        ELSE [p EXCEPT !.i = @ + 1]

\* _parse_content_fallback: numbered lines and lines of 5 characters or more
\* become Lines, unless nothing is left once the "(...)" is removed
parse_content_fallback(script) ==
    LET F[k \in 0..Len(script)] ==
            IF k = 0 THEN <<>>
            ELSE IF script[k] \in {"blank", "short", "scene_only"} THEN F[k - 1]
            ELSE Append(F[k - 1], [number |-> Len(F[k - 1]) + 1, at |-> k])
    IN  F[Len(script)]

parserRest == <<entries, total_duration, gen, probe, cv, aux, client, run, hist, tts>>

ParseStep ==
    /\ parser.pc = "main" /\ parser.i <= Len(parser.script)
    /\ parser' = parse_step(parser)
    /\ UNCHANGED parserRest

\* the while loop is over: if not script.lines, the fallback parser runs
ParseMainEnd ==
    /\ parser.pc = "main" /\ parser.i > Len(parser.script)
    /\ parser' = [parser EXCEPT !.pc = IF parser.lines = <<>> THEN "fallback" ELSE "done"]
    /\ UNCHANGED parserRest

ParseFallback ==
    /\ parser.pc = "fallback"
    /\ parser' = [parser EXCEPT !.pc = "done",
                                !.lines = parse_content_fallback(parser.script)]
    /\ UNCHANGED parserRest

InitParser ==
    /\ CoreIdle
    /\ \E sc \in Scripts(MaxScript) :
         parser = [pc |-> "main", script |-> sc, i |-> 1, line_number |-> 0, lines |-> <<>>]
    /\ client = Idle /\ run = Idle /\ hist = Idle /\ tts = Idle

NextParser ==
    \/ ParseStep
    \/ ParseMainEnd
    \/ ParseFallback

SpecParser == InitParser /\ [][NextParser]_vars

\* the Lines are numbered 1, 2, 3, ... and come from the lines of the set at,
\* in their order of appearance
LinesAre(at) ==
    /\ Len(parser.lines) = Cardinality(at)
    /\ \A n \in 1..Len(parser.lines) :
         /\ parser.lines[n].number = n
         /\ parser.lines[n].at \in at
         /\ n > 1 => parser.lines[n - 1].at < parser.lines[n].at

Speeches ==
    LET sc == parser.script
    IN  {i \in 1..Len(sc) :
           \/ sc[i] = "speaker"
           \/ /\ sc[i] = "speaker_only"
              /\ \E j \in (i + 1)..Len(sc) :
                   /\ sc[j] \notin {"blank", "speaker", "speaker_only"}
                   /\ \A k \in (i + 1)..j : sc[k] \notin {"speaker", "speaker_only"}}

Flags == {"script_parsed", "audio_generated", "images_generated", "bgm_generated", "video_generated"}

create_history_entry(status) ==
    [status |-> status, script_parsed |-> FALSE, audio_generated |-> FALSE,
     images_generated |-> FALSE, bgm_generated |-> FALSE, video_generated |-> FALSE]

\* entries a resumed run may start from: interrupted before or after the audio
ResumeEntries ==
    {create_history_entry("interrupted"),
     [create_history_entry("interrupted") EXCEPT !.script_parsed = TRUE, !.audio_generated = TRUE]}

OutputFormatLists == {<<>>, <<"youtube">>, <<"youtube", "instagram_reel">>}

\* history_entry["progress"][flag] = True
set_progress(e, flag) == [e EXCEPT ![flag] = TRUE]

\* faulty variant: the run is marked completed without its video flag
M_completedStatusOnly(e) == [e EXCEPT !.status = "completed"]

\* video_generated = True and status = "completed"
completed(e) == [e EXCEPT !.video_generated = TRUE, !.status = "completed"]

interrupted(e) == [e EXCEPT !.status = "interrupted"]

\* faulty variant: the finally block leaves the entry as it is
M_on_finallyKeeps(e) == e

\* the finally block: an entry still in_progress becomes interrupted
on_finally(e) == IF e.status = "in_progress" THEN interrupted(e) ELSE e

\* if history_entry: <change>; add_history_entry(history_entry)
Saved(r, e) ==
    IF r.has_entry THEN [r EXCEPT !.entry = e, !.saved = Append(@, e)] ELSE r

runRest == <<entries, total_duration, gen, probe, cv, aux, client, parser, hist, tts>>

\* the history entry is created, or taken from the resumed run, and saved;
\* an exception here is reported and the run goes on
RunInit ==
    /\ run.pc = "start"
    /\ \E outcome \in {"ok", "create_fails", "save_fails"} :
         LET e == IF run.resume THEN [run.entry EXCEPT !.status = "in_progress"]
                  ELSE create_history_entry("in_progress")
         IN  /\ outcome = "create_fails" => ~run.resume
             /\ run' = CASE outcome = "ok" ->
                              [run EXCEPT !.pc = "validate", !.has_entry = TRUE,
                                          !.entry = e, !.saved = Append(@, e)]
                         [] outcome = "save_fails" ->
                              [run EXCEPT !.pc = "validate", !.has_entry = TRUE, !.entry = e]
                         [] OTHER -> [run EXCEPT !.pc = "validate"]
    /\ UNCHANGED runRest

\* an empty script ends the run; otherwise script_parsed is recorded
RunValidate ==
    /\ run.pc = "validate"
    /\ \E empty \in BOOLEAN :
         run' = IF empty
                THEN [Saved(run, interrupted(run.entry)) EXCEPT !.pc = "finally", !.how = "return"]
                ELSE [Saved(run, set_progress(run.entry, "script_parsed")) EXCEPT !.pc = "audio"]
    /\ UNCHANGED runRest

\* step 1: an audio error saves the entry as interrupted and is raised again
RunAudio ==
    /\ run.pc = "audio"
    /\ \E ok \in BOOLEAN :
         run' = IF ok
                THEN [Saved(run, set_progress(run.entry, "audio_generated")) EXCEPT !.pc = "images"]
                ELSE [Saved(run, interrupted(run.entry)) EXCEPT !.pc = "except"]
    /\ UNCHANGED runRest

\* step 2: the errors of each image are swallowed; the step may end with or
\* without images, or raise outside the per-image try
RunImages ==
    /\ run.pc = "images"
    /\ \E outcome \in {"some", "none", "error"} :
         run' = IF outcome = "error" THEN [run EXCEPT !.pc = "except"]
                ELSE [Saved(run, set_progress(run.entry, "images_generated"))
                         EXCEPT !.pc = "bgm", !.generated_images = (outcome = "some")]
    /\ UNCHANGED runRest

\* step 3: BGM errors are swallowed; time_to_seconds may raise
RunBgm ==
    /\ run.pc = "bgm"
    /\ \E ok \in BOOLEAN :
         run' = IF ok
                THEN [Saved(run, set_progress(run.entry, "bgm_generated")) EXCEPT !.pc = "compose"]
                ELSE [run EXCEPT !.pc = "except"]
    /\ UNCHANGED runRest

\* step 4: the Filmora timeline and CSV, or the timeline of automatic mode
\* with its two early returns
RunCompose ==
    /\ run.pc = "compose"
    /\ \E ok \in BOOLEAN :
         run' = IF ~ok THEN [run EXCEPT !.pc = "except"]
                ELSE IF run.mode = "filmora" THEN [run EXCEPT !.pc = "complete"]
                ELSE IF ~run.generated_images \/ run.output_formats = <<>>
                THEN [run EXCEPT !.pc = "finally", !.how = "return"]
                ELSE [run EXCEPT !.pc = "render", !.i = 1]
    /\ UNCHANGED runRest

\* for fmt in output_formats: create_video inside try/except Exception
RunRender ==
    /\ run.pc = "render"
    /\ \E ok \in BOOLEAN :
         run' = [run EXCEPT !.failed = IF ok THEN @ ELSE @ \cup {run.output_formats[run.i]},
                            !.i = @ + 1,
                            !.pc = IF run.i = Len(run.output_formats) THEN "complete" ELSE "render"]
    /\ UNCHANGED runRest

\* the entry is saved as completed, then st.rerun() leaves the function
RunComplete ==
    /\ run.pc = "complete"
    /\ run' = [Saved(run, completed(run.entry)) EXCEPT !.pc = "finally", !.how = "normal"]
    /\ UNCHANGED runRest

\* except Exception: the entry, or an emergency entry when there is none, is
\* saved as interrupted
RunExcept ==
    /\ run.pc = "except"
    /\ run' = IF run.has_entry
              THEN [Saved(run, interrupted(run.entry)) EXCEPT !.pc = "finally", !.how = "error"]
              ELSE [run EXCEPT !.pc = "finally", !.how = "error",
                               !.saved = Append(@, create_history_entry("interrupted"))]
    /\ UNCHANGED runRest

RunFinally ==
    /\ run.pc = "finally"
    /\ run' = IF run.has_entry /\ run.entry.status = "in_progress"
              THEN [Saved(run, on_finally(run.entry)) EXCEPT !.pc = "ended"]
              ELSE [run EXCEPT !.pc = "ended"]
    /\ UNCHANGED runRest

InitRun ==
    /\ CoreIdle
    /\ \E mode \in {"auto", "filmora"}, fmts \in OutputFormatLists,
          old \in ResumeEntries \cup {create_history_entry("none")} :
         run = [pc |-> "start", mode |-> mode, output_formats |-> fmts,
                resume |-> old.status # "none", has_entry |-> FALSE, entry |-> old,
                saved |-> <<>>, generated_images |-> FALSE, i |-> 0, failed |-> {},
                how |-> "running"]
    /\ client = Idle /\ parser = Idle /\ hist = Idle /\ tts = Idle

NextRun ==
    \/ RunInit
    \/ RunValidate
    \/ RunAudio
    \/ RunImages
    \/ RunBgm
    \/ RunCompose
    \/ RunRender
    \/ RunComplete
    \/ RunExcept
    \/ RunFinally

SpecRun == InitRun /\ [][NextRun]_vars

LastSaved == run.saved[Len(run.saved)]

C26_CompletedOnlyIfAllRendered ==
    (run.mode = "auto" /\ run.saved # <<>>
       /\ LastSaved.status = "completed" /\ LastSaved.video_generated)
      => run.failed = {}

Chain(e) ==
    /\ e.video_generated => e.bgm_generated
    /\ e.bgm_generated => e.images_generated
    /\ e.images_generated => e.audio_generated
    /\ e.audio_generated => e.script_parsed

MAX_HISTORY == 50

\* how many entries were added to the empty history before the first step
Preloads == {0, 1, 2, 49, 50}

\* the ids of entries that are saved again, updated or deleted
Retried == {1, 2}

\* the updates handed to update_history_entry: new content, or a new id
Updates == {[rev |-> 1]} \cup {[id |-> j] : j \in Retried}

\* faulty variant: the list is written back without the cut to 50 entries
M_add_history_entryUncut(history, entry) ==
    LET existing == {i \in 1..Len(history) : history[i].id = entry.id}
    IN  IF existing # {}
        THEN [history EXCEPT ![CHOOSE i \in existing : \A k \in existing : i <= k] = entry]
        ELSE <<entry>> \o history

add_history_entry(history, entry) ==
    LET existing == {i \in 1..Len(history) : history[i].id = entry.id}
        h2 == IF existing # {}
              THEN [history EXCEPT ![CHOOSE i \in existing : \A k \in existing : i <= k] = entry]
              ELSE <<entry>> \o history
    IN  SubSeq(h2, 1, IF Len(h2) > MAX_HISTORY THEN MAX_HISTORY ELSE Len(h2))

\* the first entry with the id takes every key of updates
update_history_entry(history, entry_id, updates) ==
    LET found == {i \in 1..Len(history) : history[i].id = entry_id}
    IN  IF found = {} THEN history
        ELSE LET i == CHOOSE i \in found : \A k \in found : i <= k
             IN  [history EXCEPT ![i] = updates @@ history[i]]

delete_history_entry(history, entry_id) ==
    LET Keep(e) == e.id # entry_id
        kept == SelectSeq(history, Keep)
    IN  [history |-> kept, result |-> IF Len(kept) < Len(history) THEN "True" ELSE "False"]

\* the history after k <= 50 calls of add_history_entry with entries just
\* created: each was inserted at the front
Filled(k) == [i \in 1..k |-> [id |-> k + 1 - i, rev |-> 0]]

histRest == <<entries, total_duration, gen, probe, cv, aux, client, parser, run, tts>>

\* add_history_entry of an entry just created
HistAddNew ==
    /\ hist.calls < MaxCalls
    /\ LET e == [id |-> hist.next_id, rev |-> 0]
       IN  hist' = [hist EXCEPT !.history = add_history_entry(@, e), !.next_id = @ + 1,
                                !.calls = @ + 1, !.op = "add", !.arg = e,
                                !.result = "None"]
    /\ UNCHANGED histRest

\* add_history_entry of an entry created earlier, with new content
HistAddAgain ==
    /\ hist.calls < MaxCalls
    /\ \E id \in Retried :
         /\ id < hist.next_id
         /\ LET e == [id |-> id, rev |-> 1]
            IN  hist' = [hist EXCEPT !.history = add_history_entry(@, e),
                                     !.calls = @ + 1, !.op = "add", !.arg = e,
                                     !.result = "None"]
    /\ UNCHANGED histRest

HistUpdate ==
    /\ hist.calls < MaxCalls
    /\ \E id \in Retried, updates \in Updates :
         hist' = [hist EXCEPT !.history = update_history_entry(@, id, updates),
                              !.calls = @ + 1, !.op = "update",
                              !.arg = [id |-> id, rev |-> 0], !.result = "None",
                              !.id_updated = @ \/ "id" \in DOMAIN updates]
    /\ UNCHANGED histRest

HistDelete ==
    /\ hist.calls < MaxCalls
    /\ \E id \in Retried :
         LET d == delete_history_entry(hist.history, id)
         IN  hist' = [hist EXCEPT !.history = d.history, !.result = d.result,
                                  !.calls = @ + 1, !.op = "delete",
                                  !.arg = [id |-> id, rev |-> 0]]
    /\ UNCHANGED histRest

\* clear_all_history: save_generation_history([])
HistClear ==
    /\ hist.calls < MaxCalls
    /\ hist' = [hist EXCEPT !.history = <<>>, !.calls = @ + 1, !.op = "clear",
                            !.arg = [id |-> 0, rev |-> 0], !.result = "None"]
    /\ UNCHANGED histRest

InitHist ==
    /\ CoreIdle
    /\ \E k \in Preloads :
         hist = [pc |-> "ready", history |-> Filled(k), next_id |-> k + 1, calls |-> 0,
                 op |-> "none", arg |-> [id |-> 0, rev |-> 0], result |-> "None",
                 id_updated |-> FALSE]
    /\ client = Idle /\ parser = Idle /\ run = Idle /\ tts = Idle

NextHist ==
    \/ HistAddNew
    \/ HistAddAgain
    \/ HistUpdate
    \/ HistDelete
    \/ HistClear

SpecHist == InitHist /\ [][NextHist]_vars

UniqueIds ==
    \A i, k \in 1..Len(hist.history) :
      hist.history[i].id = hist.history[k].id => i = k

\* what a call add_history_entry(e) made of the history h: h2
AddedTo(h, e, h2) ==
    IF \E i \in 1..Len(h) : h[i].id = e.id
    THEN /\ Len(h2) = Len(h)
         /\ \E i \in 1..Len(h) :
              /\ h[i].id = e.id /\ h2[i] = e
              /\ \A k \in 1..Len(h) : k # i => h2[k] = h[k]
    ELSE /\ Len(h2) = (IF Len(h) < MAX_HISTORY THEN Len(h) + 1 ELSE MAX_HISTORY)
         /\ h2[1] = e
         /\ \A k \in 2..Len(h2) : h2[k] = h[k - 1]

\* every call leaves the history as the claim says
HistoryStep ==
    /\ hist'.op = "add" => AddedTo(hist.history, hist'.arg, hist'.history)
    /\ hist'.op = "delete" =>
         (hist'.result = "True" <=>
            \E i \in 1..Len(hist.history) : hist.history[i].id = hist'.arg.id)

\* C28 as stated: after any sequence of add, update, delete and clear calls
\* the history holds at most 50 entries and no two share an id; add replaces
\* in place or inserts at the front and drops the entries beyond 50; delete
\* returns True exactly when the id was present.
C28_HistoryBoundedUnique ==
    /\ [](Len(hist.history) <= MAX_HISTORY /\ UniqueIds)
    /\ [][HistoryStep]_vars

\* C28: the same, with the ids unique as long as no update_history_entry
\* call carried the key "id" in its updates.
C28_UniqueUnlessIdUpdated ==
    /\ [](Len(hist.history) <= MAX_HISTORY /\ (~hist.id_updated => UniqueIds))
    /\ [][HistoryStep]_vars

\* C28 witness: the 51st new entry went to the front of a full history and
\* the oldest entry, id 1, was dropped.
C28_Witness ==
    /\ hist.op = "add" /\ hist.arg.id = 51 /\ ~hist.id_updated
    /\ Len(hist.history) = MAX_HISTORY
    /\ hist.history[1].id = 51 /\ hist.history[MAX_HISTORY].id = 2

(***************************************************************************)
(* The audio loop of run_generation in individual audio mode, on its own:  *)
(* scripts of one to four lines, each line with or without an audio file.  *)
(***************************************************************************)
AudioLineCounts == {1, 2, 3, 4}

InitAudio ==
    /\ TimelineInit
    /\ \E n \in AudioLineCounts :
         gen = [GenIdle EXCEPT !.pc = "audio", !.full = FALSE, !.nlines = n]
    /\ probe = ProbeIdle
    /\ cv = CvIdle
    /\ AuxIdle

NextAudio ==
    \/ GenAudioLine
    \/ GenAudioEnd

SpecAudio == InitAudio /\ [][NextAudio]_vars

RECURSIVE SumOfDurations(_)
SumOfDurations(es) ==
    IF es = <<>> THEN RZero
    ELSE RAdd(SumOfDurations(SubSeq(es, 1, Len(es) - 1)),
              RSub(es[Len(es)].end_time, es[Len(es)].start_time))

\* C29: in individual audio mode the audio entries lie end to end in script
\* order: the first starts at 0, each next one starts where the one before
\* ends, a line without audio file leaves no gap, and total_duration is the
\* sum of the probed durations.
C29_AudioContiguous ==
    /\ \A n \in 1..Len(entries) :
         /\ entries[n].media_type = "audio"
         /\ RLt(entries[n].start_time, entries[n].end_time)
         /\ entries[n].start_time = (IF n = 1 THEN RZero ELSE entries[n - 1].end_time)
         /\ n > 1 => entries[n - 1].file_path.id < entries[n].file_path.id
    /\ total_duration = SumOfDurations(entries)

\* C29 witness: of four lines the second and third have no audio file; the
\* fourth line's entry starts at 120, where the first line's ends, and the
\* total is 120 + 10.
C29_Witness ==
    /\ gen.pc = "scale" /\ ~gen.full /\ gen.nlines = 4
    /\ Len(entries) = 2
    /\ entries[1].file_path.id = 1 /\ entries[2].file_path.id = 4
    /\ entries[1].end_time = Int2Rat(120) /\ entries[2].start_time = Int2Rat(120)
    /\ total_duration = Int2Rat(130)

(***************************************************************************)
(* TTSClient (audio/tts.py) with TTSError (utils/exceptions.py).  An       *)
(* exception is kept as the name of its class; a TTSError object has the   *)
(* attributes its constructor sets: message, original_error, service_name. *)
(***************************************************************************)
\* what the Gemini API does for one line: an answer, 429 / RESOURCE_EXHAUSTED
\* from every model, or another error
GeminiOutcomes == {"ok", "quota", "error"}

\* the numbers of lines of the scripts synthesized
TtsLineCounts == 1..8

\* TTSError(message, original_error=..., **kw): __init__ takes message and
\* original_error only, so any other keyword raises TypeError
new_TTSError(keywords) ==
    IF keywords \subseteq {"original_error"}
    THEN [raised |-> "TTSError", attrs |-> {"message", "original_error", "service_name"}]
    ELSE [raised |-> "TypeError", attrs |-> {}]

\* _synthesize_gemini: on a quota error both raise statements (249, 277) pass
\* is_quota_error=True; the TypeError of the first is caught by the except
\* Exception at 272, whose message test finds "quota" and reaches the second
synthesize_gemini(g) ==
    CASE g = "ok" -> [raised |-> "none", attrs |-> {}]
      [] g = "quota" -> new_TTSError({"original_error", "is_quota_error"})
      [] OTHER -> new_TTSError({"original_error"})

\* _synthesize_cloud: the answer, or TTSError once the retries are used up
synthesize_cloud(ok) ==
    IF ok THEN [raised |-> "none", attrs |-> {}] ELSE new_TTSError({"original_error"})

\* try: _synthesize_gemini  except TTSError as e: if e.is_quota_error: cloud
\* else: raise.  Reading an attribute the object does not have raises
\* AttributeError.  The result: the engine that made the audio, or the
\* exception that leaves the statement.
gemini_or_fallback(g, cloud_ok) ==
    LET r == synthesize_gemini(g)
    IN  IF r.raised = "none" THEN [engine |-> "gemini", raised |-> "none", fallback |-> FALSE]
        ELSE IF r.raised # "TTSError"
        THEN [engine |-> "none", raised |-> r.raised, fallback |-> FALSE]
        ELSE IF "is_quota_error" \notin r.attrs
        THEN [engine |-> "none", raised |-> "AttributeError", fallback |-> FALSE]
        ELSE [engine |-> "cloud", raised |-> synthesize_cloud(cloud_ok).raised, fallback |-> TRUE]

ttsRest == <<entries, total_duration, gen, probe, cv, aux, client, parser, run, hist>>

\* one iteration of the loop of _synthesize_script_sequential; whatever is
\* raised inside is wrapped by the except Exception at 402 into a TTSError
TtsScriptLine ==
    /\ tts.pc = "script" /\ tts.i <= tts.n
    /\ \E g \in GeminiOutcomes, cloud_ok \in BOOLEAN :
         LET r == IF tts.use_cloud_fallback
                  THEN [engine |-> "cloud", raised |-> synthesize_cloud(cloud_ok).raised,
                        fallback |-> TRUE]
                  ELSE gemini_or_fallback(g, cloud_ok)
             called == IF tts.use_cloud_fallback THEN <<"cloud">>
                       ELSE IF r.engine = "cloud" THEN <<"gemini", "cloud">> ELSE <<"gemini">>
         IN  tts' = [tts EXCEPT
                       !.calls = Append(@, called),
                       !.gemini = Append(@, IF tts.use_cloud_fallback THEN "not called" ELSE g),
                       !.cloud_failed = @ \/ ("cloud" \in {called[k] : k \in 1..Len(called)} /\ ~cloud_ok),
                       !.use_cloud_fallback = r.fallback,
                       !.i = @ + 1,
                       !.pc = IF r.raised = "none" THEN "script" ELSE "raised",
                       !.error = IF r.raised = "none" THEN "none" ELSE new_TTSError({"original_error"}).raised]
    /\ UNCHANGED ttsRest

\* every line is done: the segments are joined and the path is returned
TtsScriptEnd ==
    /\ tts.pc = "script" /\ tts.i > tts.n
    /\ tts' = [tts EXCEPT !.pc = "returned"]
    /\ UNCHANGED ttsRest

\* TTSClient.synthesize(text, speaker, path, use_expressive)
TtsSynthesize ==
    /\ tts.pc = "single"
    /\ \E use_expressive \in BOOLEAN, has_cloud \in BOOLEAN, g \in GeminiOutcomes, cloud_ok \in BOOLEAN :
         LET r == IF use_expressive THEN gemini_or_fallback(g, cloud_ok)
                  ELSE IF has_cloud
                  THEN [engine |-> "cloud", raised |-> synthesize_cloud(cloud_ok).raised,
                        fallback |-> FALSE]
                  ELSE [engine |-> "gemini", raised |-> synthesize_gemini(g).raised,
                        fallback |-> FALSE]
             called == IF ~use_expressive THEN <<r.engine>>
                       ELSE IF r.engine = "cloud" THEN <<"gemini", "cloud">> ELSE <<"gemini">>
         IN  tts' = [tts EXCEPT
                       !.calls = Append(@, called),
                       !.gemini = Append(@, IF r.engine = "cloud" /\ ~use_expressive
                                            THEN "not called" ELSE g),
                       !.cloud_failed = ("cloud" \in {called[k] : k \in 1..Len(called)} /\ ~cloud_ok),
                       !.expressive = use_expressive,
                       !.i = 2,
                       !.pc = IF r.raised = "none" THEN "returned" ELSE "raised",
                       !.error = r.raised]
    /\ UNCHANGED ttsRest

InitTts ==
    /\ CoreIdle
    /\ \E pc \in {"script", "single"}, n \in TtsLineCounts :
         /\ pc = "single" => n = 1
         /\ tts = [pc |-> pc, n |-> n, i |-> 1, use_cloud_fallback |-> FALSE,
                   calls |-> <<>>, gemini |-> <<>>, cloud_failed |-> FALSE,
                   expressive |-> TRUE, error |-> "none"]
    /\ client = Idle /\ parser = Idle /\ run = Idle /\ hist = Idle

NextTts ==
    \/ TtsScriptLine
    \/ TtsScriptEnd
    \/ TtsSynthesize

SpecTts == InitTts /\ [][NextTts]_vars

\* C30: once Gemini has answered a line with a quota error, that line and
\* every later line are made by Google Cloud TTS and Gemini is not called
\* again, so the synthesis fails only if Cloud TTS fails; a Gemini failure
\* that is no quota error ends the synthesis with a TTSError; synthesize
\* falls back in the same way.
C30_QuotaFallsBackToCloud ==
    \A k \in 1..Len(tts.gemini) :
      /\ (tts.gemini[k] = "quota" /\ tts.expressive) =>
           /\ tts.calls[k] = <<"gemini", "cloud">>
           /\ \A m \in (k + 1)..Len(tts.calls) : tts.calls[m] = <<"cloud">>
           /\ tts.pc = "raised" => tts.cloud_failed
      /\ (tts.gemini[k] = "error" /\ tts.expressive) =>
           tts.pc = "raised" /\ tts.error = "TTSError"

====
